---- MODULE Spec2Model ----
(***************************************************************************)
(* Verification model of the Gaussian-process surrogate model of ichor:    *)
(* ichor/models/model.py (Model: R, invR, weights, predict, variance,      *)
(* _read_file) and ichor/models/mean/quadratic.py (QuadraticMean).         *)
(*                                                                         *)
(* Numbers are exact rationals <<numerator, denominator>>.  numpy arrays   *)
(* are records [sh, d, err]: sh the shape tuple, d the elements in         *)
(* row-major order, err the exception raised instead of a value ("" when   *)
(* there is a value).  Lengthscales are counted in units of ln 2, so that  *)
(* exp(-theta * d^2) is the exact rational 2^-(theta * d^2).               *)
(***************************************************************************)
EXTENDS Integers, Sequences, FiniteSets, TLC

\* ------------------------------------------------------------ bounds
MaxTrain == 2
MaxFeats == 2
MaxTest == 2

\* ------------------------------------------------------------ rationals
Abs(n) == IF n < 0 THEN -n ELSE n

RECURSIVE GCD(_, _)
GCD(a, b) == IF b = 0 THEN a ELSE GCD(b, a % b)

Reduce(n, d, g) == <<n \div g, d \div g>>
Rat(n, d) == Reduce(n, d, GCD(Abs(n), d))

Zero == <<0, 1>>
One == <<1, 1>>
Int2Rat(n) == <<n, 1>>

RAdd(a, b) == Rat(a[1] * b[2] + b[1] * a[2], a[2] * b[2])
RSub(a, b) == Rat(a[1] * b[2] - b[1] * a[2], a[2] * b[2])
RMul(a, b) == Rat(a[1] * b[1], a[2] * b[2])
RSq(a) == RMul(a, a)
\* IEEE division: x / 0 is inf or nan, never an exception; carried as NaN.
NaN == <<0, 0>>
RDiv(a, b) ==
  IF b[1] = 0 \/ a[2] = 0 \/ b[2] = 0 THEN NaN
  ELSE IF b[1] < 0 THEN Rat(-(a[1] * b[2]), a[2] * (-b[1]))
  ELSE Rat(a[1] * b[2], a[2] * b[1])
RNeg(a) == <<-a[1], a[2]>>
RLess(a, b) == a[1] * b[2] < b[1] * a[2]

RECURSIVE Pow2(_)
Pow2(e) == IF e = 0 THEN 1 ELSE 2 * Pow2(e - 1)

\* ------------------------------------------------------------ numpy arrays
Arr(sh, d) == [sh |-> sh, d |-> d, err |-> ""]
Raise(e) == [sh |-> <<>>, d |-> <<>>, err |-> e]
IsErr(a) == a.err # ""
ndim(a) == Len(a.sh)
Scalar(r) == Arr(<<>>, <<r>>)

\* the shape seen as two-dimensional, numpy's alignment of trailing axes
Pad2(sh) ==
  IF Len(sh) = 0 THEN <<1, 1>>
  ELSE IF Len(sh) = 1 THEN <<1, sh[1]>>
  ELSE sh

At2(a, i, j) == a.d[(i - 1) * Pad2(a.sh)[2] + j]

\* an array of shape (m, n) from a function of the (row, column) pair
Mat(m, n, F(_, _)) ==
  Arr(<<m, n>>, [q \in 1..(m * n) |-> F(((q - 1) \div n) + 1, ((q - 1) % n) + 1)])

Vec(n, F(_)) == Arr(<<n>>, [q \in 1..n |-> F(q)])

Max(a, b) == IF a >= b THEN a ELSE b
Min(a, b) == IF a <= b THEN a ELSE b

\* numpy broadcasting of one axis: the lengths agree or one of them is 1
BOk(p, q) == p = q \/ p = 1 \/ q = 1
BDim(p, q) == IF p = 1 THEN q ELSE p

\* where element q of a result of n columns comes from in an operand whose
\* padded shape is p
BIdx(p, n, q) ==
  (IF p[1] = 1 THEN 0 ELSE (q - 1) \div n) * p[2]
    + (IF p[2] = 1 THEN 1 ELSE ((q - 1) % n) + 1)

BShape(nd, m, n) == IF nd = 2 THEN <<m, n>> ELSE IF nd = 1 THEN <<n>> ELSE <<>>

BroadcastD(Op(_, _), a, b, pa, pb, m, n) ==
  Arr(BShape(Max(ndim(a), ndim(b)), m, n),
      [q \in 1..(m * n) |-> Op(a.d[BIdx(pa, n, q)], b.d[BIdx(pb, n, q)])])

BroadcastP(Op(_, _), a, b, pa, pb) ==
  IF ~(BOk(pa[1], pb[1]) /\ BOk(pa[2], pb[2])) THEN Raise("ValueError")
  ELSE BroadcastD(Op, a, b, pa, pb, BDim(pa[1], pb[1]), BDim(pa[2], pb[2]))

\* element-wise binary operation with numpy broadcasting (0-, 1-, 2-D)
Broadcast(Op(_, _), a, b) ==
  IF IsErr(a) THEN a
  ELSE IF IsErr(b) THEN b
  ELSE BroadcastP(Op, a, b, Pad2(a.sh), Pad2(b.sh))

add(a, b) == Broadcast(RAdd, a, b)
sub(a, b) == Broadcast(RSub, a, b)
mul(a, b) == Broadcast(RMul, a, b)
div(a, b) == Broadcast(RDiv, a, b)
square(a) == mul(a, a)

\* a.T: axes reversed; a 1-D or 0-D array is its own transpose
T(a) ==
  IF IsErr(a) \/ ndim(a) < 2 THEN a
  ELSE Mat(a.sh[2], a.sh[1], LAMBDA i, j : At2(a, j, i))

flatten(a) ==
  IF IsErr(a) THEN a ELSE Arr(<<Len(a.d)>>, a.d)

\* a[:, np.newaxis] of a 1-D array and a[np.newaxis, :] of a 1-D array
newaxis_col(a) == IF IsErr(a) THEN a ELSE Arr(<<a.sh[1], 1>>, a.d)
newaxis_row(a) == IF IsErr(a) THEN a ELSE Arr(<<1, a.sh[1]>>, a.d)

\* row i of a 2-D array, as iterating over it yields it: a 1-D array
Row(a, i) == Vec(a.sh[2], LAMBDA j : At2(a, i, j))

RECURSIVE SumTo(_, _)
SumTo(F(_), n) == IF n = 0 THEN Zero ELSE RAdd(SumTo(F, n - 1), F(n))

MMShape(nda, ndb, m, n) ==
  IF nda = 2 /\ ndb = 2 THEN <<m, n>>
  ELSE IF nda = 2 THEN <<m>>
  ELSE IF ndb = 2 THEN <<n>>
  ELSE <<>>

\* the product of an (m, ka) by a (kb, n) array, both given by their data
matmulD(a, b, m, ka, kb, n) ==
  IF ka # kb THEN Raise("ValueError")
  ELSE Arr(MMShape(ndim(a), ndim(b), m, n),
           [q \in 1..(m * n) |->
              SumTo(LAMBDA l : RMul(a.d[((q - 1) \div n) * ka + l],
                                    b.d[(l - 1) * n + ((q - 1) % n) + 1]), ka)])

\* np.matmul: 1-D operands are promoted to a row (left) or a column (right)
\* and the added axis is removed from the result; scalars are refused.
matmul(a, b) ==
  IF IsErr(a) THEN a
  ELSE IF IsErr(b) THEN b
  ELSE IF ndim(a) = 0 \/ ndim(b) = 0 THEN Raise("ValueError")
  ELSE matmulD(a, b,
               IF ndim(a) = 1 THEN 1 ELSE a.sh[1],
               IF ndim(a) = 1 THEN a.sh[1] ELSE a.sh[2],
               b.sh[1],
               IF ndim(b) = 1 THEN 1 ELSE b.sh[2])

\* np.dot: as matmul for 1-D and 2-D operands, a plain product with a scalar
dot(a, b) ==
  IF IsErr(a) THEN a
  ELSE IF IsErr(b) THEN b
  ELSE IF ndim(a) = 0 \/ ndim(b) = 0 THEN mul(a, b)
  ELSE matmul(a, b)

eye(n) == Mat(n, n, LAMBDA i, j : IF i = j THEN One ELSE Zero)
ones(m, n) == Mat(m, n, LAMBDA i, j : One)

\* the matrix without row i and column j
Minor(a, i, j) ==
  Mat(a.sh[1] - 1, a.sh[1] - 1,
      LAMBDA p, q : At2(a, IF p < i THEN p ELSE p + 1, IF q < j THEN q ELSE q + 1))

RECURSIVE Det(_)
Det(a) ==
  IF a.sh[1] = 1 THEN a.d[1]
  ELSE SumTo(LAMBDA j : RMul(IF j % 2 = 1 THEN At2(a, 1, j) ELSE RNeg(At2(a, 1, j)),
                             Det(Minor(a, 1, j))), a.sh[1])

Cofactor(a, i, j) ==
  IF a.sh[1] = 1 THEN One
  ELSE IF (i + j) % 2 = 0 THEN Det(Minor(a, i, j))
  ELSE RNeg(Det(Minor(a, i, j)))

\* the inverse of a square matrix of determinant dt: adjugate over determinant
invD(a, dt) ==
  IF dt[1] = 0 THEN Raise("LinAlgError")
  ELSE Mat(a.sh[1], a.sh[1], LAMBDA i, j : RDiv(Cofactor(a, j, i), dt))

\* np.linalg.inv: LinAlgError for an array that is not a square matrix and
\* for a singular matrix
inv(a) ==
  IF IsErr(a) THEN a
  ELSE IF ndim(a) # 2 THEN Raise("LinAlgError")
  ELSE IF a.sh[1] # a.sh[2] THEN Raise("LinAlgError")
  ELSE invD(a, Det(a))

\* the first exception among the values of a sequence, "" when there is none
FirstErr(E) ==
  IF \E q \in 1..Len(E) : IsErr(E[q])
  THEN E[CHOOSE q \in 1..Len(E) : IsErr(E[q]) /\ \A p \in 1..(q - 1) : ~IsErr(E[p])]
  ELSE Raise("")

\* ------------------------------------------------------------ Mean
\* ZeroMean and ConstantMean: one scalar per input row, as a column.
ZeroMean == [tag |-> "zero", value |-> Zero, beta |-> Raise("unset"),
             xmin |-> Raise("unset"), ymin |-> Zero]
ConstantMean(v) == [tag |-> "constant", value |-> v, beta |-> Raise("unset"),
                    xmin |-> Raise("unset"), ymin |-> Zero]
ZeroMean_value(x) == Mat(x.sh[1], 1, LAMBDA i, j : Zero)
ConstantMean_value(mn, x) == Mat(x.sh[1], 1, LAMBDA i, j : mn.value)

\* QuadraticMean.__init__: beta is kept as a column, xmin as given
QuadraticMean(beta, xmin, ymin) ==
  [tag |-> "quadratic", value |-> Zero, beta |-> newaxis_col(beta),
   xmin |-> xmin, ymin |-> ymin]

\* mutant: the inputs are not shifted by xmin
QuadraticMean_value_unshifted(mn, x) ==
  flatten(add(matmul(square(x), mn.beta), Scalar(mn.ymin)))

\* QuadraticMean.value: a = x - xmin; (matmul(a * a, beta) + ymin).flatten()
QuadraticMean_value(mn, x) ==
  flatten(add(matmul(square(sub(x, mn.xmin)), mn.beta), Scalar(mn.ymin)))

Mean_value(mn, x) ==
  IF mn.tag = "zero" THEN ZeroMean_value(x)
  ELSE IF mn.tag = "constant" THEN ConstantMean_value(mn, x)
  ELSE QuadraticMean_value(mn, x)

\* ------------------------------------------------------------ Kernel
\* A composite kernel is a sequence of segments [tag, theta, lo, hi]: a
\* kernel ("rbf" or "cyclic"), its lengthscales (units of ln 2) and the
\* 1-indexed inclusive feature range it is applied to.  Feature values are
\* integers; those of a cyclic segment are counted in units of pi, so that
\* sin^2 of half the difference is 0 for an even difference, 1 for an odd one.

\* the width of x[i, lo-1:hi]: a slice is clipped to the width of the array
SliceWidth(x, lo, hi) ==
  IF Min(hi, x.sh[2]) >= lo THEN Min(hi, x.sh[2]) - lo + 1 ELSE 0

\* the per-dimension distance of a segment
Dist(tag, d) == IF tag = "cyclic" THEN d % 2 ELSE d * d

RECURSIVE SumInt(_, _)
SumInt(F(_), n) == IF n = 0 THEN 0 ELSE SumInt(F, n - 1) + F(n)

\* exp(-sum(theta * dist)) over the w broadcast dimensions of the two slices
Kernel_kd(seg, xa, i, wa, xb, j, wb, w) ==
  Scalar(<<1, Pow2(SumInt(
     LAMBDA q : seg.theta[IF Len(seg.theta) = 1 THEN 1 ELSE q]
                * Dist(seg.tag,
                       At2(xa, i, seg.lo + (IF wa = 1 THEN 1 ELSE q) - 1)[1]
                       - At2(xb, j, seg.lo + (IF wb = 1 THEN 1 ELSE q) - 1)[1]), w))>>)

Kernel_kw(seg, xa, i, wa, xb, j, wb) ==
  IF ~BOk(wa, wb) THEN Raise("ValueError")
  ELSE IF ~BOk(BDim(wa, wb), Len(seg.theta)) THEN Raise("ValueError")
  ELSE Kernel_kd(seg, xa, i, wa, xb, j, wb, BDim(BDim(wa, wb), Len(seg.theta)))

\* covariance of one segment between row i of xa and row j of xb
Kernel_k(seg, xa, i, xb, j) ==
  Kernel_kw(seg, xa, i, SliceWidth(xa, seg.lo, seg.hi),
                 xb, j, SliceWidth(xb, seg.lo, seg.hi))

\* sum over the segments
RECURSIVE Composite_k(_, _, _, _, _)
Composite_k(segs, xa, i, xb, j) ==
  IF Len(segs) = 1 THEN Kernel_k(segs[1], xa, i, xb, j)
  ELSE add(Kernel_k(Head(segs), xa, i, xb, j), Composite_k(Tail(segs), xa, i, xb, j))

Kernel_rOut(n, m, E, bad) ==
  IF IsErr(bad) THEN bad ELSE Arr(<<n, m>>, [q \in 1..(n * m) |-> E[q].d[1]])

Kernel_rE(n, m, E) == Kernel_rOut(n, m, E, FirstErr(E))

\* train-test covariance r(X, Xstar): ntrain x m
Kernel_r(segs, xtrain, xtest) ==
  Kernel_rE(xtrain.sh[1], xtest.sh[1],
            [q \in 1..(xtrain.sh[1] * xtest.sh[1]) |->
               Composite_k(segs, xtrain, ((q - 1) \div xtest.sh[1]) + 1,
                                 xtest, ((q - 1) % xtest.sh[1]) + 1)])

\* train-train covariance R(X): ntrain x ntrain
Kernel_R(segs, x) == Kernel_r(segs, x, x)

\* ------------------------------------------------------------ state
VARIABLES
  self,       \* the Model's fields: x, y, nugget, ntrain, nfeats, mean, k
  memo,       \* the instance's memoized properties R, invR, weights
  ncomputed,  \* how many times each property's body ran to a value
  ret,        \* the last call: [op, arg, val]
  threads,    \* each concurrent caller: [pc, op, arg, val, seen]
  environ     \* the surroundings of the process: os.environ, files, submitted jobs

vars == <<self, memo, ncomputed, ret, threads, environ>>

\* the calls that read nothing of the surroundings run in empty ones
NoEnviron == <<>>

Unset == Raise("unset")
IsSet(v) == v.err # "unset"
Props == {"R", "invR", "weights"}

\* ------------------------------------------------------------ Model
\* A call takes the instance state st = [memo, n] and gives [st, val]: the
\* instance state after it and the value returned or the exception raised.
Out(st, val) == [st |-> st, val |-> val]

\* check_x_2d: a 1-D input becomes a matrix of one row
check_x_2d(x) == IF ndim(x) = 1 THEN newaxis_row(x) ELSE x

\* the instance after property `name` ran to the value v
Stored(name, st, v) ==
  [memo |-> [st.memo EXCEPT ![name] = v], n |-> [st.n EXCEPT ![name] = @ + 1]]

\* cached_property: the body runs when the instance holds no value yet,
\* and the value it returns is stored; an exception stores nothing.
\* body is the [st, val] of running the property's body from st.
cached_property(name, st, body) ==
  IF IsSet(st.memo[name]) THEN Out(st, st.memo[name])
  ELSE IF IsErr(body.val) THEN body
  ELSE Out(Stored(name, body.st, body.val), body.val)

\* Model.R: self.k.R(self.x) + (self.nugget * np.eye(self.ntrain))
Model_R_body(m) ==
  add(Kernel_R(m.k, m.x), mul(Scalar(m.nugget), eye(m.ntrain)))

\* mutant: a plain property, whose body runs on every access
Model_R_recomputed(m, st) ==
  cached_property("R", [memo |-> [st.memo EXCEPT !["R"] = Unset], n |-> st.n],
                  Out(st, Model_R_body(m)))

Model_R(m, st) == cached_property("R", st, Out(st, Model_R_body(m)))

\* mutant: a failed inversion degrades to a zero matrix
invR_degraded(a) ==
  IF IsErr(a.val) \/ ~IsErr(inv(a.val)) THEN Out(a.st, inv(a.val))
  ELSE Out(a.st, Mat(a.val.sh[1], a.val.sh[1], LAMBDA i, j : Zero))

\* Model.invR: np.linalg.inv(self.R), a being the access to self.R
invR_body(a) == Out(a.st, inv(a.val))

Model_invR(m, st) == cached_property("invR", st, invR_body(Model_R(m, st)))

\* mutant: the labels are not centred on the mean
weights_body_uncentred(m, a) == Out(a.st, matmul(a.val, newaxis_col(m.y)))

\* Model.weights: np.matmul(self.invR, self.y[:, np.newaxis] - self.mean.value(self.x)),
\* a being the access to self.invR
weights_body(m, a) ==
  Out(a.st, matmul(a.val, sub(newaxis_col(m.y), Mean_value(m.mean, m.x))))

Model_weights(m, st) ==
  cached_property("weights", st, weights_body(m, Model_invR(m, st)))

\* Model.predict: mean.value(x), then k.r(self.x, x), then self.weights
predict_w(mv, r, w) == Out(w.st, flatten(add(mv, dot(T(r), w.val))))

predict_r(m, st, mv, r) ==
  IF IsErr(r) THEN Out(st, r) ELSE predict_w(mv, r, Model_weights(m, st))

predict_mv(m, st, x, mv) ==
  IF IsErr(mv) THEN Out(st, mv) ELSE predict_r(m, st, mv, Kernel_r(m.k, m.x, x))

predict_x(m, st, x) == predict_mv(m, st, x, Mean_value(m.mean, x))

Model_predict(m, st, xin) == predict_x(m, st, check_x_2d(xin))

\* mutant: a negative variance is clipped to zero
variance_store_clipped(v) ==
  IF IsErr(v) THEN v
  ELSE IF Len(v.d) # 1 THEN Raise("ValueError")
  ELSE Scalar(IF RLess(v.d[1], Zero) THEN Zero ELSE v.d[1])

\* variance[i] = v: v must hold exactly one element
variance_store(v) ==
  IF IsErr(v) THEN v
  ELSE IF Len(v.d) # 1 THEN Raise("ValueError")
  ELSE Scalar(v.d[1])

\* one pass of the loop of Model.variance: res1, res2, variance[i]
variance_item(invR, one_col, ri, res3) ==
  variance_store(
    add(sub(Scalar(One), matmul(matmul(T(ri), invR), ri)),
        div(square(sub(Scalar(One), matmul(matmul(T(one_col), invR), ri))), res3)))

variance_ret(a, items, bad) ==
  IF IsErr(bad) THEN Out(a.st, bad)
  ELSE Out(a.st, Arr(<<Len(items)>>, [i \in 1..Len(items) |-> items[i].d[1]]))

variance_items(a, items) == variance_ret(a, items, FirstErr(items))

variance_loop(a, one_col, x, r, res3) ==
  IF IsErr(res3) THEN Out(a.st, res3)
  ELSE variance_items(a,
         [i \in 1..x.sh[1] |-> variance_item(a.val, one_col, Row(r, i), res3)])

variance_res3(a, one_col, x, r) ==
  variance_loop(a, one_col, x, r, matmul(matmul(T(one_col), a.val), one_col))

variance_invR(m, x, r, a) ==
  IF IsErr(a.val) THEN a ELSE variance_res3(a, ones(m.ntrain, 1), x, r)

variance_r(m, st, x, r) ==
  IF IsErr(r) THEN Out(st, r) ELSE variance_invR(m, x, r, Model_invR(m, st))

variance_x(m, st, x) == variance_r(m, st, x, T(Kernel_r(m.k, m.x, x)))

\* Model.variance: r, then self.invR, ones, res3, then the loop over the rows
Model_variance(m, st, xin) == variance_x(m, st, check_x_2d(xin))

\* ------------------------------------------------------------ inputs
FeatVals == {0, 1}

\* training sets of n rows: every row repeats one level on all its features,
\* the first level is 0 and each next row repeats or exceeds the one before
Levels(n) ==
  {l \in [1..n -> FeatVals] : l[1] = 0 /\ \A i \in 1..(n - 1) : l[i] <= l[i + 1]}
TrainSets(n, f) == {Mat(n, f, LAMBDA i, j : Int2Rat(l[i])) : l \in Levels(n)}

\* label vectors: consecutive labels from 1
LabelVectors(n) == {Vec(n, LAMBDA i : Int2Rat(i))}

Nuggets == {Zero, <<1, 2>>}

Means(f) ==
  {ZeroMean, ConstantMean(One),
   QuadraticMean(Vec(f, LAMBDA j : One), Vec(f, LAMBDA j : Zero), One)}

\* one rbf segment over all features; or, with two features or more, an rbf
\* segment on the first feature and a cyclic one on the others
Kernels(f) ==
  {<<[tag |-> "rbf", theta |-> [j \in 1..f |-> 1], lo |-> 1, hi |-> f]>>}
  \cup (IF f = 1 THEN {}
        ELSE {<<[tag |-> "rbf", theta |-> <<1>>, lo |-> 1, hi |-> 1],
                [tag |-> "cyclic", theta |-> [j \in 1..(f - 1) |-> 1], lo |-> 2, hi |-> f]>>})

\* the models: ntrain is the header's number_of_training_points, which
\* _read_file takes as written, whatever the number of rows of x
Models ==
  UNION {UNION {
    {[x |-> xx, y |-> yy, nugget |-> ng, ntrain |-> nt, nfeats |-> f, mean |-> mn, k |-> kk] :
       xx \in TrainSets(n, f), yy \in LabelVectors(n), ng \in Nuggets,
       nt \in 1..MaxTrain, mn \in Means(f), kk \in Kernels(f)}
    : n \in 1..MaxTrain} : f \in 1..MaxFeats}

\* a model whose header agrees with its training data
WellFormed(m) ==
  /\ m.ntrain = m.x.sh[1]
  /\ m.y.sh[1] = m.x.sh[1]
  /\ m.x.sh[2] = m.nfeats

\* test rows of c columns: b on the first feature, 0 on the others
TestRow(c, b) == [j \in 1..c |-> Int2Rat(IF j = 1 THEN b ELSE 0)]

\* test inputs: a single feature vector, or a matrix of m rows that
\* alternate between the two test rows
TestInputs ==
  UNION {{Arr(<<c>>, TestRow(c, b)) : b \in FeatVals} \cup
         UNION {{Mat(m, c, LAMBDA i, j : TestRow(c, (b + i) % 2)[j]) : b \in FeatVals}
                : m \in 1..MaxTest} : c \in 1..MaxFeats}

\* ------------------------------------------------------------ actions
NoCall == [op |-> "none", arg |-> Unset, val |-> Unset]

\* the callers of one Model instance, and a caller outside of any call
NThreads == 2
Threads == 1..NThreads
Idle ==
  [pc |-> "idle", op |-> "none", arg |-> Unset, val |-> Unset,
   seen |-> [p \in Props |-> Unset]]

Init ==
  /\ self \in Models
  /\ memo = [p \in Props |-> Unset]
  /\ ncomputed = [p \in Props |-> 0]
  /\ ret = NoCall
  /\ threads = [t \in Threads |-> Idle]
  /\ environ = NoEnviron

St == [memo |-> memo, n |-> ncomputed]
\* the instance that has computed nothing yet
Fresh == [memo |-> [p \in Props |-> Unset], n |-> [p \in Props |-> 0]]

Commit(op, arg, r) ==
  /\ memo' = r.st.memo
  /\ ncomputed' = r.st.n
  /\ ret' = [op |-> op, arg |-> arg, val |-> r.val]
  /\ UNCHANGED <<environ, self, threads>>

AccessR == Commit("R", Unset, Model_R(self, St))
AccessInvR == Commit("invR", Unset, Model_invR(self, St))
AccessWeights == Commit("weights", Unset, Model_weights(self, St))
Predict == \E xin \in TestInputs : Commit("predict", xin, Model_predict(self, St, xin))
Variance == \E xin \in TestInputs : Commit("variance", xin, Model_variance(self, St, xin))

Next == AccessR \/ AccessInvR \/ AccessWeights \/ Predict \/ Variance

Spec == Init /\ [][Next]_vars

\* ------------------------------------------------------------ concurrent callers
\* Several callers run predict and variance on one Model instance. A cached
\* property is a lazy cache without a guard: the look-up in the instance, the
\* run of the body and the store of its value are separate steps of a caller.

\* the models and the inputs of the concurrent callers: consistent headers,
\* one feature, single feature vectors
ConcModels == {m \in Models : WellFormed(m) /\ m.nfeats = 1}
ConcInputs == {x \in TestInputs : ndim(x) = 1 /\ x.sh[1] = 1}

\* what predict and variance evaluate before their first property access
call_args(m, op, x) ==
  IF op = "predict" THEN FirstErr(<<Mean_value(m.mean, x), Kernel_r(m.k, m.x, x)>>)
  ELSE FirstErr(<<T(Kernel_r(m.k, m.x, x))>>)

\* the property a call reads first: predict reads weights, variance reads invR
first_property(op) == IF op = "predict" THEN "weights" ELSE "invR"

\* the caller enters predict or variance
Entered(op, xin, pre) ==
  IF IsErr(pre) THEN [Idle EXCEPT !.pc = "return", !.op = op, !.arg = xin, !.val = pre]
  ELSE [Idle EXCEPT !.pc = first_property(op), !.op = op, !.arg = xin]

\* the caller leaves its call with the value or the exception v
Leaving(th, v) == [th EXCEPT !.pc = "return", !.val = v]

\* the caller has run the body of property p to v: a value is to be stored,
\* an exception propagates out of the call
Computed(th, p, v) ==
  IF IsErr(v) THEN Leaving(th, v) ELSE [th EXCEPT !.pc = "store_" \o p, !.val = v]

\* the caller holds the value v of property p and runs on to its next
\* property step: R is read by the body of invR, invR by the body of weights
\* or by variance, weights by predict
Got(m, th, p, v) ==
  IF p = "R" THEN Computed(th, "invR", invR_body(Out(St, v)).val)
  ELSE IF p = "invR" /\ th.op = "predict"
    THEN Computed(th, "weights", weights_body(m, Out(St, v)).val)
  ELSE IF p = "invR"
    THEN Leaving(th, variance_invR(m, check_x_2d(th.arg),
                                   T(Kernel_r(m.k, m.x, check_x_2d(th.arg))), Out(St, v)).val)
  ELSE Leaving(th, predict_w(Mean_value(m.mean, check_x_2d(th.arg)),
                             Kernel_r(m.k, m.x, check_x_2d(th.arg)), Out(St, v)).val)

Observed(th, p, v) == [th EXCEPT !.seen[p] = v]

\* the instance holds no value of property p: the body of p runs, up to the
\* property it reads first
Missed(m, th, p) ==
  IF p = "weights" THEN [th EXCEPT !.pc = "invR"]
  ELSE IF p = "invR" THEN [th EXCEPT !.pc = "R"]
  ELSE Computed(th, "R", Model_R_body(m))

Looked(m, th, p) ==
  IF IsSet(memo[p]) THEN Got(m, Observed(th, p, memo[p]), p, memo[p])
  ELSE Missed(m, th, p)

ConcInit ==
  /\ self \in ConcModels
  /\ memo = [p \in Props |-> Unset]
  /\ ncomputed = [p \in Props |-> 0]
  /\ ret = NoCall
  /\ threads = [t \in Threads |-> Idle]
  /\ environ = NoEnviron

\* a caller calls predict or variance
Enter(t) ==
  /\ threads[t].pc = "idle"
  /\ \E op \in {"predict", "variance"}, xin \in ConcInputs :
       threads' = [threads EXCEPT
                     ![t] = Entered(op, xin, call_args(self, op, check_x_2d(xin)))]
  /\ UNCHANGED <<environ, self, memo, ncomputed, ret>>

\* cached_property.__get__: the look-up of the property in the instance
Lookup(t) ==
  /\ threads[t].pc \in Props
  /\ threads' = [threads EXCEPT ![t] = Looked(self, threads[t], threads[t].pc)]
  /\ UNCHANGED <<environ, self, memo, ncomputed, ret>>

\* cached_property.__get__: the store of the value the body returned
Store(t) ==
  /\ \E p \in Props :
       /\ threads[t].pc = "store_" \o p
       /\ memo' = Stored(p, St, threads[t].val).memo
       /\ ncomputed' = Stored(p, St, threads[t].val).n
       /\ threads' = [threads EXCEPT
                        ![t] = Got(self, Observed(threads[t], p, threads[t].val),
                                   p, threads[t].val)]
  /\ UNCHANGED <<environ, self, ret>>

\* predict or variance returns, or raises, to the caller
Return(t) ==
  /\ threads[t].pc = "return"
  /\ ret' = [op |-> threads[t].op, arg |-> threads[t].arg, val |-> threads[t].val]
  /\ threads' = [threads EXCEPT ![t] = Idle]
  /\ UNCHANGED <<environ, self, memo, ncomputed>>

ConcNext == \E t \in Threads : Enter(t) \/ Lookup(t) \/ Store(t) \/ Return(t)

SpecConc == ConcInit /\ [][ConcNext]_vars

\* ------------------------------------------------------------ model file
\* A file is a sequence of lines. A line is its leading white space and its
\* tokens, the result of line.split(); a token is a sequence of pieces of
\* text, so that `kw in line` is the search of the piece kw in the line.
MaxLit == 3

Line(toks) == [ws |-> FALSE, toks |-> toks]
BlankLine == Line(<<>>)

\* kw in line
In(kw, line) ==
  \E i \in 1..Len(line.toks) : \E j \in 1..Len(line.toks[i]) : line.toks[i][j] = kw

\* line.startswith(kw)
startswith(line, kw) ==
  ~line.ws /\ Len(line.toks) > 0 /\ line.toks[1][1] = kw

\* int(tok) and float(tok): the decimal numerals up to MaxLit, and 0.5
IsInt(tok) == Len(tok) = 1 /\ \E n \in 0..MaxLit : ToString(n) = tok[1]
IntOf(tok) == CHOOSE n \in 0..MaxLit : ToString(n) = tok[1]
IsFloat(tok) == IsInt(tok) \/ tok = <<"0.5">>
FloatOf(tok) == IF tok = <<"0.5">> THEN <<1, 2>> ELSE Int2Rat(IntOf(tok))

\* the fields of a Model before its file is read; the nugget of __init__,
\* 1e-10, is kept at 1e-9, within the integers of the model
DefaultNugget == <<1, 1000000000>>
FileContents == <<"FileContents">>
NoInt == -1
None == Raise("")
NewModel ==
  [system |-> FileContents, atom |-> FileContents, type |-> FileContents,
   nugget |-> DefaultNugget, nfeats |-> NoInt, ntrain |-> NoInt,
   mean |-> [tag |-> "FileContents"], k |-> <<>>, x |-> Unset, y |-> Unset]

\* _read_file's locals next to the instance: the composition string, the
\* kernels by name, the exception raised, numpy's treatment of ragged rows
NewRead(ragged) ==
  [m |-> NewModel, comp |-> <<>>, klist |-> <<>>, err |-> "", ragged |-> ragged]

\* the reader after a branch: its state and the line the loop reads next
At(st, i) == [st |-> st, i |-> i]
Fail(st, e, i) == At([st EXCEPT !.err = e], i)

\* line.split()[1], stored by the setter
second_token(line, st, i, field) ==
  IF Len(line.toks) < 2 THEN Fail(st, "IndexError", i)
  ELSE At([st EXCEPT !.m[field] = line.toks[2]], i + 1)

\* int(line.split()[1])
second_int(line, st, i, field) ==
  IF Len(line.toks) < 2 THEN Fail(st, "IndexError", i)
  ELSE IF ~IsInt(line.toks[2]) THEN Fail(st, "ValueError", i)
  ELSE At([st EXCEPT !.m[field] = IntOf(line.toks[2])], i + 1)

\* self.nugget = float(line.split()[-1])
read_nugget(line, st, i) ==
  IF ~IsFloat(line.toks[Len(line.toks)]) THEN Fail(st, "ValueError", i)
  ELSE At([st EXCEPT !.m.nugget = FloatOf(line.toks[Len(line.toks)])], i + 1)

\* mutant: the two lines are read without being consumed, the loop reads them again
read_mean_not_consumed(lines, st, i) ==
  IF i + 2 > Len(lines) THEN Fail(st, "StopIteration", Len(lines) + 1)
  ELSE IF Len(lines[i + 2].toks) < 2 THEN Fail(st, "IndexError", i + 3)
  ELSE IF ~IsFloat(lines[i + 2].toks[2]) THEN Fail(st, "ValueError", i + 3)
  ELSE At([st EXCEPT !.m.mean = ConstantMean(FloatOf(lines[i + 2].toks[2]))], i + 1)

\* [mean]: next(f), line = next(f), ConstantMean(float(line.split()[1]))
read_mean(lines, st, i) ==
  IF i + 2 > Len(lines) THEN Fail(st, "StopIteration", Len(lines) + 1)
  ELSE IF Len(lines[i + 2].toks) < 2 THEN Fail(st, "IndexError", i + 3)
  ELSE IF ~IsFloat(lines[i + 2].toks[2]) THEN Fail(st, "ValueError", i + 3)
  ELSE At([st EXCEPT !.m.mean = ConstantMean(FloatOf(lines[i + 2].toks[2]))], i + 3)

\* kernel_composition = line.split()[-1]
read_composition(line, st, i) ==
  At([st EXCEPT !.comp = line.toks[Len(line.toks)]], i + 1)

\* kernel_name = line.split(".")[-1].rstrip().rstrip("]"): the pieces
\* between "[kernel." and the closing "]"
RECURSIVE rstrip_bracket(_)
rstrip_bracket(tok) ==
  IF Len(tok) > 0 /\ tok[Len(tok)] = "]" THEN rstrip_bracket(SubSeq(tok, 1, Len(tok) - 1))
  ELSE tok
kernel_name(line) ==
  rstrip_bracket(SubSeq(line.toks[Len(line.toks)],
                        1 + (CHOOSE j \in 1..Len(line.toks[Len(line.toks)]) :
                               line.toks[Len(line.toks)][j] = "[kernel."),
                        Len(line.toks[Len(line.toks)])))

\* RBF(lengthscale) and RBFCyclic(lengthscale); the lengthscales of the
\* files are whole numbers
RBF(lengthscale) == [tag |-> "rbf", theta |-> [j \in 1..Len(lengthscale) |-> lengthscale[j][1]]]
RBFCyclic(lengthscale) == [tag |-> "cyclic", theta |-> [j \in 1..Len(lengthscale) |-> lengthscale[j][1]]]

\* [float(hp) for hp in toks]
AllFloat(toks) == \A j \in 1..Len(toks) : IsFloat(toks[j])
Floats(toks) == [j \in 1..Len(toks) |-> FloatOf(toks[j])]

\* kernel_list[kernel_name] = kernel
Registered(st, name, kernel) ==
  [st EXCEPT !.klist = Append(st.klist, [name |-> name, kernel |-> kernel])]

\* the lengthscale line of a kernel section: line.split()[1:]
read_lengthscale(st, name, tag, toks, i) ==
  IF ~AllFloat(toks) THEN Fail(st, "ValueError", i)
  ELSE At(Registered(st, name,
                     IF tag = "rbf" THEN RBF(Floats(toks)) ELSE RBFCyclic(Floats(toks))), i)

\* mutant: the misspelt rbf-cylic is not taken for a kernel type
read_kernel_type_no_typo(lines, st, i, name, ktype) ==
  IF ktype \notin {<<"rbf">>, <<"rbf-cyclic">>} THEN At(st, i + 2)
  ELSE IF i + 4 > Len(lines) THEN Fail(st, "StopIteration", Len(lines) + 1)
  ELSE read_lengthscale(st, name, IF ktype = <<"rbf">> THEN "rbf" ELSE "cyclic",
                        SubSeq(lines[i + 4].toks, 2, Len(lines[i + 4].toks)), i + 5)

\* mutant: one next(f) less, the lengthscale line is the second after the type line
read_kernel_type_one_skipped(lines, st, i, name, ktype) ==
  IF ktype \notin {<<"rbf">>, <<"rbf-cyclic">>, <<"rbf-cylic">>} THEN At(st, i + 2)
  ELSE IF i + 3 > Len(lines) THEN Fail(st, "StopIteration", Len(lines) + 1)
  ELSE read_lengthscale(st, name, IF ktype = <<"rbf">> THEN "rbf" ELSE "cyclic",
                        SubSeq(lines[i + 3].toks, 2, Len(lines[i + 3].toks)), i + 4)

\* after the type line: three next(f), the third being the lengthscale line
read_kernel_type(lines, st, i, name, ktype) ==
  IF ktype \notin {<<"rbf">>, <<"rbf-cyclic">>, <<"rbf-cylic">>} THEN At(st, i + 2)
  ELSE IF i + 4 > Len(lines) THEN Fail(st, "StopIteration", Len(lines) + 1)
  ELSE read_lengthscale(st, name, IF ktype = <<"rbf">> THEN "rbf" ELSE "cyclic",
                        SubSeq(lines[i + 4].toks, 2, Len(lines[i + 4].toks)), i + 5)

\* [kernel.<name>]: the name, then the type from the last token of the next line
read_kernel(lines, st, i) ==
  IF i + 1 > Len(lines) THEN Fail(st, "StopIteration", Len(lines) + 1)
  ELSE IF Len(lines[i + 1].toks) = 0 THEN Fail(st, "IndexError", i + 2)
  ELSE read_kernel_type(lines, st, i, kernel_name(lines[i]),
                        lines[i + 1].toks[Len(lines[i + 1].toks)])

\* np.array of a list of rows of floats: no row gives an empty vector, rows
\* of one length a matrix; ragged rows give an exception or a vector of
\* lists, as the numpy at hand has it
Ragged(rows) == \E a \in 1..Len(rows), b \in 1..Len(rows) : Len(rows[a]) # Len(rows[b])
np_array2(rows, ragged) ==
  IF Len(rows) = 0 THEN Arr(<<0>>, <<>>)
  ELSE IF Ragged(rows)
    THEN (IF ragged = "object" THEN Arr(<<Len(rows)>>, rows) ELSE Raise("ValueError"))
  ELSE Arr(<<Len(rows), Len(rows[1])>>,
           [q \in 1..(Len(rows) * Len(rows[1])) |->
              rows[((q - 1) \div Len(rows[1])) + 1][((q - 1) % Len(rows[1])) + 1]])

\* np.array of a list of floats
np_array1(vals) == Arr(<<Len(vals)>>, vals)

\* self._x = np.array(x)
store_x(st, a, i) ==
  IF IsErr(a) THEN Fail(st, a.err, i) ELSE At([st EXCEPT !.m.x = a], i)

\* [training_data.x]: the lines up to the first blank one, each a row of floats
RECURSIVE read_x(_, _, _, _)
read_x(lines, st, j, rows) ==
  IF j > Len(lines) THEN Fail(st, "StopIteration", j)
  ELSE IF Len(lines[j].toks) = 0 THEN store_x(st, np_array2(rows, st.ragged), j + 1)
  ELSE IF ~AllFloat(lines[j].toks) THEN Fail(st, "ValueError", j + 1)
  ELSE read_x(lines, st, j + 1, Append(rows, Floats(lines[j].toks)))

\* [training_data.y]: the lines up to the first blank one, each one float
RECURSIVE read_y(_, _, _, _)
read_y(lines, st, j, vals) ==
  IF j > Len(lines) THEN Fail(st, "StopIteration", j)
  ELSE IF Len(lines[j].toks) = 0 THEN At([st EXCEPT !.m.y = np_array1(vals)], j + 1)
  ELSE IF Len(lines[j].toks) # 1 \/ ~IsFloat(lines[j].toks[1]) THEN Fail(st, "ValueError", j + 1)
  ELSE read_y(lines, st, j + 1, Append(vals, FloatOf(lines[j].toks[1])))

\* the body of `for line in f`, on line i
read_line(lines, st, i) ==
  IF startswith(lines[i], "#") THEN At(st, i + 1)
  ELSE IF In("name", lines[i]) THEN second_token(lines[i], st, i, "system")
  ELSE IF startswith(lines[i], "atom") THEN second_token(lines[i], st, i, "atom")
  ELSE IF In("property", lines[i]) THEN second_token(lines[i], st, i, "type")
  ELSE IF In("nugget", lines[i]) THEN read_nugget(lines[i], st, i)
  ELSE IF In("number_of_features", lines[i]) THEN second_int(lines[i], st, i, "nfeats")
  ELSE IF In("number_of_training_points", lines[i]) THEN second_int(lines[i], st, i, "ntrain")
  ELSE IF In("[mean]", lines[i]) THEN read_mean(lines, st, i)
  ELSE IF In("composition", lines[i]) THEN read_composition(lines[i], st, i)
  ELSE IF In("[kernel.", lines[i]) THEN read_kernel(lines, st, i)
  ELSE IF In("[training_data.x]", lines[i]) THEN read_x(lines, st, i + 1, <<>>)
  ELSE IF In("[training_data.y]", lines[i]) THEN read_y(lines, st, i + 1, <<>>)
  ELSE At(st, i + 1)

\* `for line in f`: the loop ends with the file, an exception ends the read
RECURSIVE read_lines(_, _)
read_lines(lines, at) ==
  IF at.st.err # "" \/ at.i > Len(lines) THEN at.st
  ELSE read_lines(lines, read_line(lines, at.st, at.i))

\* KernelInterpreter(kernel_composition, kernel_list).interpret(): the
\* expression is a sum of terms name(lo-hi). Every name is a registered
\* kernel, the ranges do not overlap and leave no gap from 1; the call
\* hands the interpreter no number of features to compare them with.
NoTerms == [ts |-> <<>>, ok |-> TRUE]
BadTerms == [ts |-> <<>>, ok |-> FALSE]
Term(name, lo, hi) == [name |-> <<name>>, lo |-> lo, hi |-> hi]
TermsCons(t, rest) == [ts |-> <<t>> \o rest.ts, ok |-> rest.ok]

RECURSIVE Terms(_, _)
Terms(p, i) ==
  IF i > Len(p) THEN NoTerms
  ELSE IF p[i] = "+" THEN (IF i = 1 \/ i = Len(p) THEN BadTerms ELSE Terms(p, i + 1))
  ELSE IF i + 5 > Len(p) THEN BadTerms
  ELSE IF \/ p[i + 1] # "(" \/ ~IsInt(<<p[i + 2]>>)
          \/ p[i + 3] # "-" \/ ~IsInt(<<p[i + 4]>>) \/ p[i + 5] # ")" THEN BadTerms
  ELSE TermsCons(Term(p[i], IntOf(<<p[i + 2]>>), IntOf(<<p[i + 4]>>)), Terms(p, i + 6))

Known(klist, name) == \E q \in 1..Len(klist) : klist[q].name = name
\* the kernel registered last under the name
Lookup_kernel(klist, name) ==
  klist[CHOOSE q \in 1..Len(klist) :
          klist[q].name = name /\ \A r \in (q + 1)..Len(klist) : klist[r].name # name].kernel

TermsValid(ts, klist) ==
  /\ Len(ts) > 0
  /\ \A a \in 1..Len(ts) : Known(klist, ts[a].name) /\ 1 <= ts[a].lo /\ ts[a].lo <= ts[a].hi
  /\ \A a \in 1..Len(ts), b \in 1..Len(ts) :
       a # b => (ts[a].hi < ts[b].lo \/ ts[b].hi < ts[a].lo)
  /\ \A a \in 1..Len(ts) : \A d \in 1..ts[a].hi :
       \E b \in 1..Len(ts) : ts[b].lo <= d /\ d <= ts[b].hi

Segments(ts, klist) ==
  [a \in 1..Len(ts) |->
     [tag |-> Lookup_kernel(klist, ts[a].name).tag,
      theta |-> Lookup_kernel(klist, ts[a].name).theta,
      lo |-> ts[a].lo, hi |-> ts[a].hi]]

interpret_terms(parsed, klist) ==
  IF ~parsed.ok THEN [segs |-> <<>>, err |-> "ParseError"]
  ELSE IF ~TermsValid(parsed.ts, klist) THEN [segs |-> <<>>, err |-> "ParseError"]
  ELSE [segs |-> Segments(parsed.ts, klist), err |-> ""]

KernelInterpreter_interpret(comp, klist) == interpret_terms(Terms(comp, 1), klist)

\* self.k = KernelInterpreter(kernel_composition, kernel_list).interpret()
set_k(st, r) ==
  IF r.err # "" THEN [st EXCEPT !.err = r.err] ELSE [st EXCEPT !.m.k = r.segs]

read_end(st) ==
  IF st.err # "" THEN st ELSE set_k(st, KernelInterpreter_interpret(st.comp, st.klist))

\* Model._read_file on the lines of the file at self.path
Model_read_file(lines, ragged) == read_end(read_lines(lines, At(NewRead(ragged), 1)))

\* ------------------------------------------------------------ files
Num(n) == <<ToString(n)>>
Words(ws) == Line([j \in 1..Len(ws) |-> <<ws[j]>>])

\* row i of a [training_data.x] block, w numbers wide, and value i of a
\* [training_data.y] block
XRow(i, w) == Line([j \in 1..w |-> Num(i - 1)])
YRow(i) == Line(<<Num(i)>>)

\* the lists of row widths of a [training_data.x] block
RowWidths == UNION {[1..r -> 1..MaxFeats] : r \in 0..MaxTrain}

KernelTypes == {"rbf", "rbf-cyclic", "rbf-cylic"}
NuggetLits == {"0", "0.5"}

\* a model file as FEREBUS writes it: f features and n training points in
\* the header, one kernel over the f features, an x block of the given row
\* widths, a y block of ny values
ModelFile(f, n, widths, ny, ktype, nug) ==
  <<Words(<<"#", "[system]">>),
    Words(<<"name", "WATER">>),
    Words(<<"atom", "O1">>),
    Words(<<"property", "iqa">>),
    Words(<<"nugget", nug>>),
    Line(<<<<"number_of_features">>, Num(f)>>),
    Line(<<<<"number_of_training_points">>, Num(n)>>),
    Words(<<"[mean]">>),
    Words(<<"type", "constant">>),
    Line(<<<<"value">>, Num(1)>>),
    Line(<<<<"composition">>, <<"k1", "(", ToString(1), "-", ToString(f), ")">>>>),
    Line(<<<<"[kernel.", "k1", "]">>>>),
    Words(<<"type", ktype>>),
    Line(<<<<"number_of_dimensions">>, Num(f)>>),
    Line(<<<<"active_dimensions">>>> \o [j \in 1..f |-> Num(j)]),
    Line(<<<<"thetas">>>> \o [j \in 1..f |-> Num(1)]),
    Words(<<"[training_data.x]">>)>>
  \o [i \in 1..Len(widths) |-> XRow(i, widths[i])]
  \o <<BlankLine, Words(<<"[training_data.y]">>)>>
  \o [i \in 1..ny |-> YRow(i)]
  \o <<BlankLine>>

Files ==
  {ModelFile(f, n, widths, ny, ktype, nug) :
     f \in 1..MaxFeats, n \in 1..MaxTrain, widths \in RowWidths,
     ny \in 0..MaxTrain, ktype \in KernelTypes, nug \in NuggetLits}

\* the files the variations below start from: the header agrees with the
\* data blocks
BaseFiles ==
  {ModelFile(f, n, [i \in 1..n |-> f], n, ktype, "0.5") :
     f \in 1..MaxFeats, n \in 1..MaxTrain, ktype \in KernelTypes}

\* the first line of the file that holds kw and is no comment
LineOf(file, kw) ==
  CHOOSE i \in 1..Len(file) :
    /\ In(kw, file[i]) /\ ~startswith(file[i], "#")
    /\ \A j \in 1..(i - 1) : ~In(kw, file[j]) \/ startswith(file[j], "#")

Prefix(file, n) == SubSeq(file, 1, n)
Drop(file, a, b) == SubSeq(file, 1, a - 1) \o SubSeq(file, b + 1, Len(file))
Insert(file, i, line) == SubSeq(file, 1, i - 1) \o <<line>> \o SubSeq(file, i, Len(file))
SetLine(file, i, line) == [file EXCEPT ![i] = line]

\* the sections a model file must hold, and the last line of each in a
\* file of ModelFile's layout
Sections == {"[mean]", "composition", "[kernel.", "[training_data.x]", "[training_data.y]"}
SectionEnd(file, kw) ==
  IF kw = "[mean]" THEN LineOf(file, kw) + 2
  ELSE IF kw = "composition" THEN LineOf(file, kw)
  ELSE IF kw = "[kernel." THEN LineOf(file, kw) + 4
  ELSE IF kw = "[training_data.x]" THEN LineOf(file, "[training_data.y]") - 1
  ELSE Len(file)

\* malformed files: the file ends early; a section is missing; a line that
\* carries a value is left with its keyword alone
Truncated == UNION {{Prefix(file, n) : n \in 0..(Len(file) - 1)} : file \in BaseFiles}

SectionDropped ==
  UNION {{Drop(file, LineOf(file, kw), SectionEnd(file, kw)) : kw \in Sections}
         : file \in BaseFiles}

ValueKeywords ==
  {"name", "atom", "property", "nugget", "number_of_features",
   "number_of_training_points", "value", "composition", "thetas"}
Shortened ==
  UNION {{SetLine(file, LineOf(file, kw), Words(<<kw>>)) : kw \in ValueKeywords}
         : file \in BaseFiles}

MalformedFiles == Truncated \cup SectionDropped \cup Shortened

\* a comment line put before line i of a file, or at its end
CommentLine == Words(<<"#", "comment">>)
Commented ==
  UNION {{Insert(file, i, CommentLine) : i \in 1..(Len(file) + 1)} : file \in BaseFiles}

\* kernel sections with lengthscales 2, 3, ..: as FEREBUS writes them, two
\* lines between the type line and the lengthscale line, and with one line
\* between them
NFeatsOf(file) == IntOf(file[LineOf(file, "number_of_features")].toks[2])
ThetaLine(f) == Line(<<<<"thetas">>>> \o [j \in 1..f |-> Num(j + 1)])
WithThetas(file) == SetLine(file, LineOf(file, "thetas"), ThetaLine(NFeatsOf(file)))
OneHeader(file) ==
  Drop(file, LineOf(file, "number_of_dimensions"), LineOf(file, "number_of_dimensions"))
TwoHeaderFiles == {WithThetas(file) : file \in BaseFiles}
OneHeaderFiles == {OneHeader(file) : file \in TwoHeaderFiles}
KernelFiles == TwoHeaderFiles \cup OneHeaderFiles

\* metadata lines with other labels: H2, name1, nugget
Labels == {<<"H2">>, <<"name", "1">>, <<"nugget">>}
LabelKeywords == {"name", "atom", "property"}
MetaFiles ==
  UNION {{SetLine(file, LineOf(file, kw), Line(<<<<kw>>, v>>)) :
            kw \in LabelKeywords, v \in Labels} : file \in BaseFiles}

\* [mean] sections whose two lines read like metadata or section lines
MeanHeaders ==
  {Words(<<"type", "constant">>), Words(<<"name", "OTHER">>), Words(<<"[training_data.y]">>)}
MeanValueLines ==
  {Line(<<<<kw>>, Num(v)>>) :
     kw \in {"value", "nugget", "number_of_training_points"}, v \in {0, 2}}
WithMean(file, header, value) ==
  SetLine(SetLine(file, LineOf(file, "[mean]") + 1, header),
          LineOf(file, "[mean]") + 2, value)
MeanFiles ==
  UNION {{WithMean(file, header, value) : header \in MeanHeaders, value \in MeanValueLines}
         : file \in BaseFiles}

\* composition expressions of one or two terms over the names k1 and k2
\* and the ranges within the features
ExprTerms ==
  {[name |-> nm, lo |-> lo, hi |-> hi] :
     nm \in {"k1", "k2"}, lo \in 1..MaxFeats, hi \in 1..MaxFeats}
TermTok(t) == <<t.name, "(", ToString(t.lo), "-", ToString(t.hi), ")">>
Expressions ==
  {TermTok(t) : t \in ExprTerms}
  \cup {TermTok(t) \o <<"+">> \o TermTok(u) : t \in ExprTerms, u \in ExprTerms}

\* the file with a second kernel section, [kernel.k2], after the first
TwoKernels(file) ==
  SubSeq(file, 1, LineOf(file, "[kernel.") + 4)
  \o <<Line(<<<<"[kernel.", "k2", "]">>>>)>>
  \o SubSeq(file, LineOf(file, "[kernel.") + 1, Len(file))

WithComposition(file, expr) ==
  SetLine(file, LineOf(file, "composition"), Line(<<<<"composition">>, expr>>))

RbfBaseFiles == {file \in BaseFiles : file[LineOf(file, "[kernel.") + 1] = Words(<<"type", "rbf">>)}
CompositionFiles ==
  UNION {{WithComposition(file, expr) : expr \in Expressions}
         \cup {WithComposition(TwoKernels(file), expr) : expr \in Expressions}
         : file \in RbfBaseFiles}

\* the files a Model is read from
ModelFiles ==
  Files \cup MalformedFiles \cup Commented \cup KernelFiles \cup MetaFiles \cup MeanFiles
  \cup CompositionFiles

\* numpy's treatment of ragged rows
RaggedOutcomes == {"object", "ValueError"}

ParseInit ==
  /\ self = NewModel
  /\ memo = [p \in Props |-> Unset]
  /\ ncomputed = [p \in Props |-> 0]
  /\ ret = NoCall
  /\ threads = [t \in Threads |-> Idle]
  /\ environ = NoEnviron

Read(file, st) ==
  /\ self' = st.m
  /\ ret' = [op |-> "_read_file", arg |-> file, val |-> Raise(st.err)]
  /\ UNCHANGED <<environ, memo, ncomputed, threads>>

\* the file of the instance is read, once
ReadFile ==
  /\ ret.op = "none"
  /\ \E file \in ModelFiles, ragged \in RaggedOutcomes :
       Read(file, Model_read_file(file, ragged))

ParseNext == ReadFile

SpecParse == ParseInit /\ [][ParseNext]_vars

\* ------------------------------------------------------------ selection
\* RandomPoints (cli/make_set_methods/random.py): the points added to the
\* training set are drawn at random from the sample pool.

MaxPool == 4

\* a python list returned by a call
PyList(s) == [list |-> s, err |-> ""]

\* range(n): the indices 0..n-1
range(n) == 0..(n - 1)

\* random.sample(population, k): ValueError when k is negative or larger
\* than the population, otherwise any k distinct elements in any order
random_sample(population, k) ==
  IF k < 0 \/ k > Cardinality(population) THEN {Raise("ValueError")}
  ELSE {PyList(s) : s \in {q \in [1..k -> population] :
                             \A a \in 1..k, b \in 1..k : a # b => q[a] # q[b]}}

\* the sample of every requested point, without the bound of the pool
RandomPoints_get_points_unbounded(slf, points) ==
  random_sample(range(Len(points)), slf.npoints)

\* RandomPoints.get_points: the outcomes of one call
RandomPoints_get_points(slf, points) ==
  random_sample(range(Len(points)), Min(slf.npoints, Len(points)))

\* the sample pools, a point standing for its geometry, and the requests
Pools == {[i \in 1..n |-> i] : n \in 0..MaxPool}
NPoints == (0 - 1)..(MaxPool + 1)

\* RandomPoints.__init__
RandomPoints(npoints) == [npoints |-> npoints]

SelectInit ==
  /\ self \in {RandomPoints(n) : n \in NPoints}
  /\ memo = [p \in Props |-> Unset]
  /\ ncomputed = [p \in Props |-> 0]
  /\ ret = NoCall
  /\ threads = [t \in Threads |-> Idle]
  /\ environ = NoEnviron

GetPoints ==
  \E points \in Pools :
    \E val \in RandomPoints_get_points(self, points) :
      /\ ret' = [op |-> "get_points", arg |-> points, val |-> val]
      /\ UNCHANGED <<environ, self, memo, ncomputed, threads>>

SelectNext == GetPoints

SpecSelect == SelectInit /\ [][SelectNext]_vars

\* ------------------------------------------------------------ uncertainty selection
\* The uncertainty ("epe") selector over the models' predictive variance:
\* the scores of the candidates of the pool are the sums of the variances
\* the models give them; the candidates of the largest scores are selected.

\* the models of one feature whose variance can be evaluated, and the lists
\* of one or two of them
EpeModels ==
  {m \in Models : /\ WellFormed(m) /\ m.nfeats = 1 /\ m.mean = ZeroMean
                  /\ ~IsErr(Model_invR(m, Fresh).val)}
ModelLists == {<<m>> : m \in EpeModels} \cup {<<m, o>> : m \in EpeModels, o \in EpeModels}

\* the pools: matrices of one to MaxCand candidates of one feature, and the
\* numbers of points requested
MaxCand == 3
CandidatePools ==
  UNION {{Arr(<<n, 1>>, [q \in 1..n |-> Int2Rat(v[q])]) : v \in [1..n -> FeatVals]}
         : n \in 1..MaxCand}
Requests == 0..(MaxCand + 1)

\* the variance of every model over the pool
RECURSIVE epe_variances(_, _)
epe_variances(models, pool) ==
  IF models = <<>> THEN <<>>
  ELSE <<Model_variance(Head(models), Fresh, pool).val>> \o epe_variances(Tail(models), pool)

\* the aggregate score of candidate i: the sum over the models
epe_score(variances, i) == SumTo(LAMBDA k : variances[k].d[i], Len(variances))
RECURSIVE epe_scores(_, _)
epe_scores(variances, n) ==
  IF n = 0 THEN <<>> ELSE Append(epe_scores(variances, n - 1), epe_score(variances, n))

\* mutant: among equal scores the larger pool index comes first
epe_before_last(scores, a, b) ==
  \/ RLess(scores[b], scores[a])
  \/ ~RLess(scores[a], scores[b]) /\ a > b

\* candidate a is ranked before candidate b: the larger score, and among
\* equal scores the smaller pool index
epe_before(scores, a, b) ==
  \/ RLess(scores[b], scores[a])
  \/ ~RLess(scores[a], scores[b]) /\ a < b

\* the one element of a set
Only(S) == CHOOSE v \in S : TRUE

\* the ranking of the candidates 1..n: candidate n put in its place among
\* the ranking of the candidates before it
RECURSIVE epe_ranked(_, _)
epe_placed(scores, ranked, a) ==
  SelectSeq(ranked, LAMBDA b : epe_before(scores, b, a)) \o <<a>>
    \o SelectSeq(ranked, LAMBDA b : ~epe_before(scores, b, a))
epe_ranked(scores, n) ==
  IF n = 0 THEN <<>>
  ELSE Only({epe_placed(scores, ranked, n) : ranked \in {epe_ranked(scores, n - 1)}})

\* the first npoints of the ranking, as indices from 0
epe_head(ranked, npoints) == [k \in 1..Min(npoints, Len(ranked)) |-> ranked[k] - 1]

\* get_points of the uncertainty selector
UncertaintySelector_get_points(models, pool, npoints) ==
  IF npoints <= 0 THEN Raise("SelectionError")
  ELSE Only({PyList(epe_head(epe_ranked(scores, pool.sh[1]), npoints)) :
               scores \in {epe_scores(epe_variances(models, pool), pool.sh[1])}})

UncertaintySelector(models, pool) == [models |-> models, pool |-> pool]

EpeInit ==
  /\ self \in {UncertaintySelector(models, pool) : models \in ModelLists, pool \in CandidatePools}
  /\ memo = [p \in Props |-> Unset]
  /\ ncomputed = [p \in Props |-> 0]
  /\ ret = NoCall
  /\ threads = [t \in Threads |-> Idle]
  /\ environ = NoEnviron

EpeGetPoints ==
  \E npoints \in Requests :
    /\ ret' = [op |-> "epe", arg |-> npoints,
               val |-> UncertaintySelector_get_points(self.models, self.pool, npoints)]
    /\ UNCHANGED <<environ, self, memo, ncomputed, threads>>

EpeNext == EpeGetPoints

SpecEpe == EpeInit /\ [][EpeNext]_vars

\* ------------------------------------------------------------ mean values
\* QuadraticMean.value applied to matrices (models/mean/quadratic.py).

\* the quadratic means over f features, and the matrices of f columns
QuadraticMeans(f) ==
  {QuadraticMean(Arr(<<f>>, [j \in 1..f |-> Int2Rat(b[j])]),
                 Arr(<<f>>, [j \in 1..f |-> Int2Rat(c[j])]), ymin) :
     b \in [1..f -> {1, 2}], c \in [1..f -> FeatVals], ymin \in {Zero, One}}
Matrices(f) ==
  UNION {{Arr(<<m, f>>, [q \in 1..(m * f) |-> Int2Rat(v[q])]) :
            v \in [1..(m * f) -> FeatVals]} : m \in 1..MaxTest}

MeanInit ==
  /\ self \in UNION {QuadraticMeans(f) : f \in 1..MaxFeats}
  /\ memo = [p \in Props |-> Unset]
  /\ ncomputed = [p \in Props |-> 0]
  /\ ret = NoCall
  /\ threads = [t \in Threads |-> Idle]
  /\ environ = NoEnviron

Value ==
  \E x \in Matrices(self.xmin.sh[1]) :
    /\ ret' = [op |-> "value", arg |-> x, val |-> QuadraticMean_value(self, x)]
    /\ UNCHANGED <<environ, self, memo, ncomputed, threads>>

MeanNext == Value

SpecMean == MeanInit /\ [][MeanNext]_vars

\* ------------------------------------------------------------ python environment
\* get_current_python_environment_path (hpc/useful_functions/get_python_environment.py)
\* reads VIRTUAL_ENV and CONDA_PREFIX from os.environ.

EnvNames == {"VIRTUAL_ENV", "CONDA_PREFIX"}
EnvPaths == {"/env/a", "/env/b", "/env/c"}

\* os.getenv: the value of the variable, None when it is not set
getenv(env, name) ==
  IF name \in DOMAIN env THEN [str |-> env[name], err |-> ""] ELSE None

\* Path(value): TypeError for None, otherwise the path of the text, as the
\* sequence of its parts ("" is the path without parts, ".")
Path(value) ==
  IF value = None THEN Raise("TypeError")
  ELSE [path |-> IF value.str = "" THEN <<>> ELSE <<value.str>>, err |-> ""]

PythonEnvironmentPath(venv_env_path, conda_env_path) ==
  [venv_env_path |-> venv_env_path, conda_env_path |-> conda_env_path, err |-> ""]
uses_venv(python_env) == python_env.venv_env_path # None
uses_conda(python_env) == python_env.conda_env_path # None

\* the body of get_current_python_environment_path once the two Path(...)
\* are evaluated, in order
get_python_env(venv_env_path, conda_env_path) ==
  IF IsErr(venv_env_path) THEN venv_env_path
  ELSE IF IsErr(conda_env_path) THEN conda_env_path
  ELSE IF uses_venv(PythonEnvironmentPath(venv_env_path, conda_env_path))
          \/ uses_conda(PythonEnvironmentPath(venv_env_path, conda_env_path))
  THEN PythonEnvironmentPath(venv_env_path, conda_env_path)
  ELSE Raise("PythonEnvironmentNotFound")

get_current_python_environment_path(env) ==
  get_python_env(Path(getenv(env, "VIRTUAL_ENV")), Path(getenv(env, "CONDA_PREFIX")))

EnvInit ==
  /\ environ \in UNION {[set -> EnvPaths] : set \in SUBSET EnvNames}
  /\ self = Unset
  /\ memo = [p \in Props |-> Unset]
  /\ ncomputed = [p \in Props |-> 0]
  /\ ret = NoCall
  /\ threads = [t \in Threads |-> Idle]

\* an environment is activated or deactivated in the calling shell
Activate ==
  /\ \E name \in EnvNames, path \in EnvPaths :
       environ' = [n \in DOMAIN environ \cup {name} |-> IF n = name THEN path ELSE environ[n]]
  /\ UNCHANGED <<self, memo, ncomputed, ret, threads>>
Deactivate ==
  /\ \E name \in DOMAIN environ :
       environ' = [n \in DOMAIN environ \ {name} |-> environ[n]]
  /\ UNCHANGED <<self, memo, ncomputed, ret, threads>>

GetEnvironment ==
  /\ ret' = [op |-> "get_current_python_environment_path", arg |-> environ,
             val |-> get_current_python_environment_path(environ)]
  /\ UNCHANGED <<environ, self, memo, ncomputed, threads>>

EnvNext == Activate \/ Deactivate \/ GetEnvironment

SpecEnv == EnvInit /\ [][EnvNext]_vars

\* ------------------------------------------------------------ auto run
\* auto_run (auto_run/standard_auto_run.py) submits the jobs of every
\* iteration, each held for the job submitted before it. The surroundings
\* are [counter, training_set, points, njobs]: the content of the counter
\* file (NoFile when it does not exist), whether the training set exists,
\* the kind of the points location, and the number of jobs the batch system
\* has accepted, the last of which has job id njobs.

MaxIter == 2

NoFile == "<absent>"
JobID(n) == [id |-> n, err |-> ""]

\* mutant: a step of usage AllButLast runs in every iteration
IterUsage_contains_all(usage, state) == TRUE

\* IterUsage.__contains__
IterUsage_contains(usage, state) == usage # "AllButLast" \/ state # "Last"

IterStep(func, usage) == [func |-> func, usage |-> usage]

func_order ==
  <<IterStep("ichor_qcp", "All"), IterStep("qcp", "All"),
    IterStep("ichor_qct", "All"), IterStep("qct", "All"),
    IterStep("make_models", "All"), IterStep("ferebus", "All"),
    IterStep("active_learning", "AllButLast")>>

\* a step function called with hold: the submission script is handed to the
\* batch system, which gives the next job id, or the function returns None
\* (Optional[JobID]) and no job is submitted
Submitted(env, func, hold) ==
  [env |-> [env EXCEPT !.njobs = @ + 1],
   val |-> JobID(env.njobs + 1),
   call |-> <<[func |-> func, hold |-> hold, id |-> JobID(env.njobs + 1)]>>]
NotSubmitted(env, func, hold) ==
  [env |-> env, val |-> None, call |-> <<[func |-> func, hold |-> hold, id |-> None]>>]
submit(env, func, hold) == {Submitted(env, func, hold), NotSubmitted(env, func, hold)}

\* IterStep.run: the outcomes [env, val, call], call holding the call of
\* the step function when the step is used in this state
IterStep_run(iter_step, wait_for_job, state, env) ==
  IF IterUsage_contains(iter_step.usage, state)
  THEN submit(env, iter_step.func, wait_for_job)
  ELSE {[env |-> env, val |-> wait_for_job, call |-> <<>>]}

\* the step functions of a sequence of calls
Called(call) == [c \in 1..Len(call) |-> call[c].func]

LastCall(last, call) == IF call = <<>> THEN last ELSE call

\* the iterations of auto_run: Standard N times, the first replaced by
\* First (IndexError when there is none), then Last
Iterations(n) ==
  IF n <= 0 THEN Raise("IndexError")
  ELSE [d |-> [i \in 1..(n + 1) |->
                 IF i = n + 1 THEN "Last" ELSE IF i = 1 THEN "First" ELSE "Standard"],
        err |-> ""]

\* the module outside of auto_run: N_ITERATIONS and the submit type are
\* settings; states, calls and returned record the calls of next_iter, the
\* step functions called in each of them and what each of them returned,
\* last the last call of a step function
AutoRunModule(n, drop) ==
  [N_ITERATIONS |-> n, DropCompute |-> drop, pc |-> "idle",
   iterations |-> <<>>, i |-> 0, step |-> 0, job_id |-> None,
   nPoints |-> "1", modify |-> <<>>,
   states |-> <<>>, calls |-> <<>>, returned |-> <<>>, last |-> <<>>]

\* mutant: auto_run that does not look for the counter file
auto_run_enter_unchecked(slf, env) ==
  IF IsErr(Iterations(slf.N_ITERATIONS))
  THEN [self |-> slf, env |-> [env EXCEPT !.counter = "0"],
        val |-> Iterations(slf.N_ITERATIONS), raised |-> TRUE]
  ELSE [self |-> [slf EXCEPT !.pc = "next_iter",
                             !.iterations = Iterations(slf.N_ITERATIONS).d,
                             !.i = 1, !.job_id = None,
                             !.states = <<>>, !.calls = <<>>, !.returned = <<>>,
                             !.last = <<>>],
        env |-> [env EXCEPT !.counter = "0"], val |-> None, raised |-> FALSE]

\* auto_run up to its loop: the counter file is looked for, then written,
\* then the list of iterations is made
auto_run_enter(slf, env) ==
  IF env.counter # NoFile
  THEN [self |-> slf, env |-> env, val |-> Raise("AutoRunAlreadyRunning"), raised |-> TRUE]
  ELSE IF IsErr(Iterations(slf.N_ITERATIONS))
  THEN [self |-> slf, env |-> [env EXCEPT !.counter = "0"],
        val |-> Iterations(slf.N_ITERATIONS), raised |-> TRUE]
  ELSE [self |-> [slf EXCEPT !.pc = "next_iter",
                             !.iterations = Iterations(slf.N_ITERATIONS).d,
                             !.i = 1, !.job_id = None,
                             !.states = <<>>, !.calls = <<>>, !.returned = <<>>,
                             !.last = <<>>],
        env |-> [env EXCEPT !.counter = "0"], val |-> None, raised |-> FALSE]

AutoRunInit ==
  /\ self \in {AutoRunModule(n, drop) : n \in 0..MaxIter, drop \in BOOLEAN}
  /\ environ \in [counter : {NoFile, "0", "1"}, training_set : BOOLEAN,
                  points : {"dir", "xyz", "other"}, njobs : {0}]
  /\ memo = [p \in Props |-> Unset]
  /\ ncomputed = [p \in Props |-> 0]
  /\ ret = NoCall
  /\ threads = [t \in Threads |-> Idle]

Frame == UNCHANGED <<memo, ncomputed, threads>>

\* auto_run is called
AutoRun ==
  /\ self.pc = "idle"
  /\ self' = auto_run_enter(self, environ).self
  /\ environ' = auto_run_enter(self, environ).env
  /\ ret' = IF auto_run_enter(self, environ).raised
            THEN [op |-> "auto_run", arg |-> environ, val |-> auto_run_enter(self, environ).val]
            ELSE NoCall
  /\ Frame

\* an exception leaves auto_run
AutoRunRaise(e) ==
  /\ self' = [self EXCEPT !.pc = "idle"]
  /\ ret' = [op |-> "auto_run", arg |-> Unset, val |-> Raise(e)]

\* next_iter is entered (lines 162-210): on First the number of points is
\* that of the training set, or make_sets is submitted; the steps follow
NextIterEnter(state, made) ==
  /\ self' = [self EXCEPT !.pc = "step", !.step = 1,
                          !.job_id = made.val,
                          !.nPoints = IF state # "First" THEN "POINTS_PER_ITERATION"
                                      ELSE IF environ.training_set THEN "len(training_set)"
                                      ELSE "make_sets_npoints",
                          !.modify = <<>>,
                          !.states = Append(@, state),
                          !.calls = Append(@, Called(made.call)),
                          !.last = LastCall(@, made.call)]
  /\ environ' = made.env
  /\ UNCHANGED ret

NextIter ==
  /\ self.pc = "next_iter"
  /\ IF self.iterations[self.i] = "First" /\ ~environ.training_set
     THEN IF environ.points = "other"
          THEN AutoRunRaise("ValueError") /\ UNCHANGED environ
          ELSE \E made \in IterStep_run(IterStep("make_sets", "All"), self.job_id,
                                        "First", environ) :
                 NextIterEnter("First", made)
     ELSE NextIterEnter(self.iterations[self.i],
                        [env |-> environ, val |-> self.job_id, call |-> <<>>])
  /\ Frame

\* SCRIPT_NAMES.modify of the step at offset k of the uid, on drop-compute
Modify(k, job_id) ==
  IF job_id # None THEN <<"+", k, "+hold_", k - 1>> ELSE <<"+", k>>

\* the loop of next_iter has run its last step: next_iter returns job_id
\* and auto_run goes on with the next iteration, or returns
NextIterReturn(slf, env, job_id) ==
  IF slf.DropCompute \/ slf.i = Len(slf.iterations)
  THEN /\ self' = [slf EXCEPT !.pc = "idle",
                              !.returned = Append(@, [val |-> job_id, njobs |-> env.njobs])]
       /\ ret' = [op |-> "auto_run", arg |-> Unset, val |-> job_id]
  ELSE /\ self' = [slf EXCEPT !.pc = "next_iter", !.i = @ + 1,
                              !.returned = Append(@, [val |-> job_id, njobs |-> env.njobs])]
       /\ UNCHANGED ret

\* one pass of the loop over func_order (lines 213-224)
RunStep ==
  /\ self.pc = "step"
  /\ \E ran \in IterStep_run(func_order[self.step], self.job_id,
                             self.iterations[self.i], environ) :
       /\ environ' = ran.env
       /\ IF self.step = Len(func_order)
          THEN NextIterReturn(
                 [self EXCEPT !.job_id = ran.val,
                              !.modify = IF self.DropCompute
                                         THEN Modify(self.step - 1, self.job_id) ELSE @,
                              !.calls[Len(self.calls)] = @ \o Called(ran.call),
                              !.last = LastCall(@, ran.call)],
                 ran.env, ran.val)
          ELSE /\ self' = [self EXCEPT !.step = @ + 1, !.job_id = ran.val,
                              !.modify = IF self.DropCompute
                                         THEN Modify(self.step - 1, self.job_id) ELSE @,
                              !.calls[Len(self.calls)] = @ \o Called(ran.call),
                              !.last = LastCall(@, ran.call)]
               /\ UNCHANGED ret
  /\ Frame

AutoRunNext == AutoRun \/ NextIter \/ RunStep

SpecAutoRun == AutoRunInit /\ [][AutoRunNext]_vars

\* ------------------------------------------------------------ globals
\* Globals (hpc/globals/globals.py): the variables of one instance, set
\* through Globals.set or by attribute assignment and read back. The model
\* keeps the variables SYSTEM_NAME, KERNEL, POINTS_PER_ITERATION and the
\* three path properties. The surroundings are
\* [files, cache]: the paths that exist and the result that the cached
\* get_atoms_reference_file has given.

Str(text) == [str |-> text, err |-> ""]

\* Path.resolve: a relative path is taken from the working directory
resolve(p) ==
  IF p.path # <<>> /\ Head(p.path) = "/" THEN p
  ELSE [path |-> <<"/", "cwd">> \o p.path, err |-> ""]
exists(env, p) == resolve(p) \in env.files

\* the class attributes of Globals
GlobalsDefaults ==
  [SYSTEM_NAME |-> "SYSTEM", KERNEL |-> "periodic", POINTS_PER_ITERATION |-> 1,
   POINTS_LOCATION_ |-> None, ATOMS_REFERENCE_FILE_ |-> None,
   ALF_REFERENCE_FILE_ |-> None]

properties_with_setter_methods ==
  {"POINTS_LOCATION", "ATOMS_REFERENCE_FILE", "ALF_REFERENCE_FILE"}
global_variables ==
  {"SYSTEM_NAME", "KERNEL", "POINTS_PER_ITERATION", "CWD"}
  \cup properties_with_setter_methods
protected == {"CWD", "UID", "OS", "ATOMS"}
StrVariables == {"SYSTEM_NAME", "KERNEL"}
IntVariables == {"POINTS_PER_ITERATION"}

\* constants.KERNELS, as the class body and the module docstring give it
KERNELS == {"rbf", "rbf-cyclic"}

\* str.upper on the names and the texts of the model
upper(text) ==
  IF text = "kernel" THEN "KERNEL"
  ELSE IF text = "water" THEN "WATER"
  ELSE text

\* the parsers of a variable, by its annotation: parse_str, parse_int
\* (ValueError for a text that is no integer), read_path
parse_int(text) ==
  IF \E n \in (0 - MaxLit)..MaxLit : ToString(n) = text
  THEN [v |-> CHOOSE n \in (0 - MaxLit)..MaxLit : ToString(n) = text, err |-> ""]
  ELSE Raise("ValueError")
Parsed(name, text) ==
  IF name \in IntVariables THEN parse_int(text)
  ELSE IF name \in StrVariables THEN [v |-> text, err |-> ""]
  ELSE [v |-> Path(Str(text)), err |-> ""]

\* the formatters: cleanup_str on every str, then to_upper on SYSTEM_NAME
cleanup_str(text) == IF text = " rbf " THEN "rbf" ELSE text
Formatted(name, v) ==
  IF name = "SYSTEM_NAME" THEN upper(cleanup_str(v))
  ELSE IF name \in StrVariables THEN cleanup_str(v)
  ELSE v

\* the checkers: check_allowed on KERNEL, positive on POINTS_PER_ITERATION;
\* a checker raises ValueError for a value it refuses
HasCheckers == {"KERNEL", "POINTS_PER_ITERATION"}
Checked(name, v) ==
  IF name = "KERNEL" /\ v \notin KERNELS THEN Raise("ValueError")
  ELSE IF name = "POINTS_PER_ITERATION" /\ v <= 0 THEN Raise("ValueError")
  ELSE None

\* a call on the instance: the instance and the surroundings after it and
\* the value returned or the exception raised
Done(slf, env, val) == [self |-> slf, env |-> env, val |-> val]

\* the setters of the three path properties
path_setter(slf, env, name, value, field) ==
  IF ~exists(env, value) THEN Done(slf, env, Raise("FileNotFoundError"))
  ELSE Done([slf EXCEPT ![field] = resolve(value)], env, None)

\* the attribute each setter assigns: that of ATOMS_REFERENCE_FILE assigns
\* self._ALF_REFERENCE_FILE
stored_by(name) ==
  IF name = "POINTS_LOCATION" THEN "POINTS_LOCATION_"
  ELSE IF name = "ATOMS_REFERENCE_FILE" THEN "ALF_REFERENCE_FILE_"
  ELSE "ALF_REFERENCE_FILE_"

\* object.__setattr__: a property is set through its setter
object_setattr(slf, env, name, value) ==
  IF name \in properties_with_setter_methods
  THEN path_setter(slf, env, name, value, stored_by(name))
  ELSE IF name = "CWD" THEN Done(slf, env, None)
  ELSE Done([slf EXCEPT ![name] = value], env, None)

setattr_checked(slf, env, name, v, check) ==
  IF IsErr(check) THEN Done(slf, env, check) ELSE object_setattr(slf, env, name, v)

setattr_parsed(slf, env, name, parsed) ==
  IF IsErr(parsed) THEN Done(slf, env, parsed)
  ELSE setattr_checked(slf, env, name, Formatted(name, parsed.v),
                       Checked(name, Formatted(name, parsed.v)))

\* Globals.__setattr__: parsers, formatters, checkers, then the assignment
Globals_setattr(slf, env, name, value) ==
  IF name \in global_variables THEN setattr_parsed(slf, env, name, Parsed(name, value))
  ELSE Done(slf, env, None)

\* Globals.set: unknown and protected names are passed over, and so is a
\* ValueError of the assignment
set_tried(slf, env, done) ==
  IF done.val.err = "ValueError" THEN Done(slf, env, None) ELSE done
Globals_set(slf, env, name, value) ==
  IF upper(name) \notin global_variables THEN Done(slf, env, None)
  ELSE IF upper(name) \in protected THEN Done(slf, env, None)
  ELSE set_tried(slf, env, Globals_setattr(slf, env, upper(name), value))

\* get_atoms_reference_file(Path.cwd()) under lru_cache: the cached result,
\* or any .gjf or .xyz file of the directory, which is then cached, or
\* FileNotFoundError when there is none
get_atoms_reference_file(env) ==
  IF env.cache # None THEN {[env |-> env, val |-> env.cache]}
  ELSE IF env.files = {} THEN {[env |-> env, val |-> Raise("FileNotFoundError")]}
  ELSE {[env |-> [env EXCEPT !.cache = f], val |-> f] : f \in env.files}

\* the getter of POINTS_LOCATION once self._POINTS_LOCATION is decided
points_location_found(slf, env, found) ==
  IF IsErr(found) THEN Done(slf, env, Raise("ValueError"))
  ELSE IF ~exists(env, found) THEN
    Done([slf EXCEPT !.POINTS_LOCATION_ = found], env, Raise("FileNotFoundError"))
  ELSE Done([slf EXCEPT !.POINTS_LOCATION_ = found], env, found)
POINTS_LOCATION(slf, env) ==
  IF slf.POINTS_LOCATION_ = None
  THEN {points_location_found(slf, r.env, r.val) : r \in get_atoms_reference_file(env)}
  ELSE {points_location_found(slf, env, slf.POINTS_LOCATION_)}

\* the getter of ATOMS_REFERENCE_FILE: with a stored path that exists it
\* returns self.ATOMS_REFERENCE_FILE.resolve(), which calls itself again
ATOMS_REFERENCE_FILE(slf, env) ==
  IF slf.ATOMS_REFERENCE_FILE_ = None THEN POINTS_LOCATION(slf, env)
  ELSE IF ~exists(env, slf.ATOMS_REFERENCE_FILE_)
  THEN {Done(slf, env, Raise("FileNotFoundError"))}
  ELSE {Done(slf, env, Raise("RecursionError"))}

ALF_REFERENCE_FILE(slf, env) ==
  IF slf.ALF_REFERENCE_FILE_ = None THEN ATOMS_REFERENCE_FILE(slf, env)
  ELSE IF ~exists(env, slf.ALF_REFERENCE_FILE_)
  THEN {Done(slf, env, Raise("FileNotFoundError"))}
  ELSE {Done(slf, env, resolve(slf.ALF_REFERENCE_FILE_))}

\* getattr: a property through its getter, a variable as it is stored
Globals_getattr(slf, env, name) ==
  IF name = "POINTS_LOCATION" THEN POINTS_LOCATION(slf, env)
  ELSE IF name = "ATOMS_REFERENCE_FILE" THEN ATOMS_REFERENCE_FILE(slf, env)
  ELSE IF name = "ALF_REFERENCE_FILE" THEN ALF_REFERENCE_FILE(slf, env)
  ELSE {Done(slf, env, [v |-> slf[name], err |-> ""])}

\* the names and the texts of the calls
SetNames == {"KERNEL", "kernel", "POINTS_PER_ITERATION", "SYSTEM_NAME",
             "CWD", "UNKNOWN"} \cup properties_with_setter_methods
TextsOf(name) ==
  IF upper(name) = "KERNEL" THEN {"rbf", " rbf ", "matern"}
  ELSE IF upper(name) \in IntVariables THEN {"0", "2", "-1", "two"}
  ELSE IF upper(name) = "SYSTEM_NAME" THEN {"water"}
  ELSE {"a.xyz", "b.gjf", "c.xyz"}
ReferenceFiles == {resolve(Path(Str("a.xyz"))), resolve(Path(Str("b.gjf")))}

GlobalsInit ==
  /\ self = GlobalsDefaults
  /\ environ \in [files : SUBSET ReferenceFiles, cache : {None}]
  /\ memo = [p \in Props |-> Unset]
  /\ ncomputed = [p \in Props |-> 0]
  /\ ret = NoCall
  /\ threads = [t \in Threads |-> Idle]

\* the call is over
Called_(op, arg, done) ==
  /\ self' = done.self
  /\ environ' = done.env
  /\ ret' = [op |-> op, arg |-> arg, val |-> done.val]
  /\ Frame

GlobalsSet ==
  \E name \in SetNames : \E text \in TextsOf(name) :
    Called_("set", <<name, text>>, Globals_set(self, environ, name, text))

GlobalsAssign ==
  \E name \in SetNames \ {"kernel", "UNKNOWN", "CWD"} : \E text \in TextsOf(name) :
    Called_("__setattr__", <<name, text>>, Globals_setattr(self, environ, name, text))

GlobalsRead ==
  \E name \in global_variables \ {"CWD"} :
    \E done \in Globals_getattr(self, environ, name) :
      Called_("getattr", <<name>>, done)

\* a reference file is removed from the disk
Unlink ==
  /\ \E f \in environ.files : environ' = [environ EXCEPT !.files = @ \ {f}]
  /\ UNCHANGED <<self, ret>>
  /\ Frame

GlobalsNext == GlobalsSet \/ GlobalsAssign \/ GlobalsRead \/ Unlink

SpecGlobals == GlobalsInit /\ [][GlobalsNext]_vars

\* ------------------------------------------------------------ reference
\* The quantities of the statements below, written entry by entry.

\* the mean of one row: 0, the constant, or sum_d beta_d (x_d - xmin_d)^2 + ymin
RefMean(mn, x, i) ==
  IF mn.tag = "zero" THEN Zero
  ELSE IF mn.tag = "constant" THEN mn.value
  ELSE RAdd(SumTo(LAMBDA j : RMul(mn.beta.d[j], RSq(RSub(At2(x, i, j), mn.xmin.d[j]))),
                  x.sh[2]),
            mn.ymin)

\* covariance of training row s with row i of x
RefCov(s, x, i) == Composite_k(self.k, self.x, s, x, i).d[1]

NTrainRows == self.x.sh[1]

\* entry t of invR (y - Mean.value(X)), from the memoized invR
RefWeight(t) ==
  SumTo(LAMBDA s : RMul(At2(memo.invR, t, s),
                        RSub(self.y.d[s], RefMean(self.mean, self.x, s))), NTrainRows)

\* Mean.value(row i) + r_i . weights
RefPredict(x, i) ==
  RAdd(RefMean(self.mean, x, i),
       SumTo(LAMBDA t : RMul(RefCov(t, x, i), RefWeight(t)), NTrainRows))

\* a = r_i^T invR r_i
RefA(x, i) ==
  SumTo(LAMBDA s : SumTo(LAMBDA t : RMul(RefCov(s, x, i),
                           RMul(At2(memo.invR, s, t), RefCov(t, x, i))), NTrainRows),
        NTrainRows)

\* b = (1 - ones^T invR r_i)^2
RefB(x, i) ==
  RSq(RSub(One,
       SumTo(LAMBDA s : SumTo(LAMBDA t : RMul(At2(memo.invR, s, t), RefCov(t, x, i)),
                              NTrainRows), NTrainRows)))

\* c = ones^T invR ones
RefC ==
  SumTo(LAMBDA s : SumTo(LAMBDA t : At2(memo.invR, s, t), NTrainRows), NTrainRows)

\* 1 - a + b / c for row i of x
RefVariance(x, i) == RAdd(RSub(One, RefA(x, i)), RDiv(RefB(x, i), RefC))

Returned(op) == ret.op = op /\ ~IsErr(ret.val)
ArgCols == check_x_2d(ret.arg).sh[2]
ArgRows == check_x_2d(ret.arg).sh[1]

\* ------------------------------------------------------------ claims
\* C1: for every mean variant and every m >= 1, predict on a test matrix of
\* m rows returns exactly m values, the i-th being Mean.value(row i) plus
\* the dot product of the train-test covariance column of row i with the
\* regression weights.
C1_PredictPerRow ==
  (Returned("predict") /\ WellFormed(self) /\ ArgCols = self.nfeats) =>
     ret.val = Vec(ArgRows, LAMBDA i : RefPredict(check_x_2d(ret.arg), i))

\* C2: weights is a column vector of shape ntrain x 1 equal to
\* invR (y - Mean.value(X)), for every mean variant.
C2_WeightsColumn ==
  (IsSet(memo.weights) /\ WellFormed(self)) =>
     memo.weights = Mat(self.ntrain, 1, LAMBDA t, j : RefWeight(t))

\* C3: variance on m test rows returns m values in row order, the value for
\* row i being 1 - a + b/c with a = r_i^T invR r_i, b = (1 - ones^T invR r_i)^2,
\* c = ones^T invR ones; a negative value is returned as it is.
C3_VarianceFormula ==
  Returned("variance") =>
     ret.val = Vec(ArgRows, LAMBDA i : RefVariance(check_x_2d(ret.arg), i))

\* C3 witness: a batch of two rows or more whose variance has a negative entry
C3_Witness ==
  /\ Returned("variance")
  /\ ArgRows >= 2
  /\ \E i \in 1..Len(ret.val.d) : RLess(ret.val.d[i], Zero)

\* the results of calling op on each row alone (a 1-D vector), collected in
\* row order; the exception of the first row that raises one
Call(op, xin) ==
  IF op = "predict" THEN Model_predict(self, St, xin).val
  ELSE Model_variance(self, St, xin).val

RECURSIVE ConcatData(_)
ConcatData(rs) == IF rs = <<>> THEN <<>> ELSE Head(rs).d \o ConcatData(Tail(rs))

Collected(rs, bad) ==
  IF IsErr(bad) THEN bad ELSE Arr(<<Len(ConcatData(rs))>>, ConcatData(rs))

Collect(rs) == Collected(rs, FirstErr(rs))

RowByRow(op, x) == Collect([i \in 1..x.sh[1] |-> Call(op, Row(x, i))])

Same(a, b) == IF IsErr(a) \/ IsErr(b) THEN IsErr(a) /\ IsErr(b) ELSE a = b

\* C4: batch/scalar equivalence: predict and variance applied to a matrix of
\* m rows give the same results as applying them to each row alone and
\* collecting the m results in row order.
C4_BatchEqualsRows ==
  (ret.op \in {"predict", "variance"} /\ ndim(ret.arg) = 2) =>
     Same(ret.val, RowByRow(ret.op, ret.arg))

\* C5: predict (and variance) called with a test input whose number of
\* columns differs from nfeats fails and returns no values.
C5_WrongWidthRaises ==
  (ret.op \in {"predict", "variance"} /\ ArgCols # self.nfeats) => IsErr(ret.val)

\* C6: when the train-train covariance matrix R cannot be inverted, invR
\* (and so predict, variance and weights) raises; no inverse and no weights
\* are ever memoized and no result is returned.
Singular == IsSet(memo.R) /\ Det(memo.R)[1] = 0
C6_SingularRaises ==
  Singular =>
     /\ ~IsSet(memo.invR)
     /\ ~IsSet(memo.weights)
     /\ ret.op \in {"invR", "weights"} => ret.val.err = "LinAlgError"
     /\ ret.op \in {"predict", "variance"} => IsErr(ret.val)
     /\ (ret.op \in {"predict", "variance"} /\ ArgCols = self.nfeats /\ WellFormed(self)
           /\ self.mean.tag # "quadratic")
          => ret.val.err = "LinAlgError"

\* C6 witness: invR was asked of a model whose R is singular
C6_Witness ==
  Singular /\ WellFormed(self) /\ ret.op = "invR" /\ ret.val.err = "LinAlgError"

\* C7: R is the composite kernel's train-train matrix of X with nugget added
\* to every diagonal entry and nothing added off the diagonal, a square
\* matrix whose side is the number of rows of X.
C7_NuggetOnDiagonal ==
  IsSet(memo.R) =>
     memo.R = Mat(NTrainRows, NTrainRows,
                  LAMBDA i, j : RAdd(RefCov(i, self.x, j), IF i = j THEN self.nugget ELSE Zero))

\* C8: over any sequence of predict, variance, R, invR and weights accesses on
\* one Model, each derived quantity is computed at most once, every access
\* returns the memoized value, and a memoized value never changes.
C8_MemoizedOnce ==
  [][/\ \A p \in Props : ncomputed'[p] <= 1
     /\ \A p \in Props : IsSet(memo[p]) => (memo'[p] = memo[p] /\ ncomputed'[p] = ncomputed[p])
     /\ \A p \in Props : (ret'.op = p /\ ~IsErr(ret'.val)) => ret'.val = memo'[p]
     /\ \A p \in Props : (ret'.op = p /\ IsSet(memo[p])) => ret'.val = memo[p]]_vars

\* C8 witness: R is read again after the weights were memoized, and every
\* quantity has been computed exactly once
C8_Witness ==
  /\ ret.op = "R"
  /\ \A p \in Props : IsSet(memo[p]) /\ ncomputed[p] = 1
  /\ ret.val = memo.R

\* C9: when two or more callers run predict or variance concurrently on one
\* Model, in every interleaving each of R, invR and weights is computed at
\* most once and all callers observe the same value of each.
C9_RaceSafe ==
  /\ \A p \in Props : ncomputed[p] <= 1
  /\ \A t \in Threads, u \in Threads, p \in Props :
       (IsSet(threads[t].seen[p]) /\ IsSet(threads[u].seen[p]))
          => threads[t].seen[p] = threads[u].seen[p]

\* C10: after Model._read_file succeeds, X has exactly
\* number_of_training_points rows and every row has exactly
\* number_of_features columns.
C10_XShape ==
  (ret.op = "_read_file" /\ ~IsErr(ret.val))
     => /\ ndim(self.x) = 2
        /\ self.x.sh[1] = self.ntrain
        /\ self.x.sh[2] = self.nfeats

\* C11: after Model._read_file succeeds, y has exactly
\* number_of_training_points values, so len(y) = rows(X) = ntrain.
C11_YLength ==
  (ret.op = "_read_file" /\ ~IsErr(ret.val))
     => /\ ndim(self.y) = 1
        /\ self.y.sh[1] = self.ntrain
        /\ ndim(self.x) >= 1
        /\ self.y.sh[1] = self.x.sh[1]

\* the fields of the model that _read_file is to populate are all set
Populated(m) ==
  /\ m.system # FileContents /\ m.atom # FileContents /\ m.type # FileContents
  /\ m.nfeats # NoInt /\ m.ntrain # NoInt
  /\ m.mean.tag # "FileContents" /\ m.k # <<>>
  /\ IsSet(m.x) /\ IsSet(m.y)

\* C12: parsing a malformed model file (a required section missing, a line
\* with too few tokens, the file ending inside a section) fails with
\* ParseError; parsing never completes leaving a model field unset.
C12_MalformedRaises ==
  ret.op = "_read_file"
     => /\ ret.arg \in MalformedFiles => ret.val.err = "ParseError"
        /\ ~IsErr(ret.val) => Populated(self)

\* the read of a file gave the model and the outcome of the last call
SameRead(file) ==
  \E ragged \in RaggedOutcomes :
    /\ Model_read_file(file, ragged).m = self
    /\ Model_read_file(file, ragged).err = ret.val.err

\* C13: every line that begins with '#' is ignored by the parser: removing
\* any such line, wherever it stands, leaves the parsed model unchanged.
C13_CommentsIgnored ==
  ret.op = "_read_file"
     => \A i \in 1..Len(ret.arg) :
          startswith(ret.arg[i], "#") => SameRead(Drop(ret.arg, i, i))

\* the [kernel.<name>] line of the file read, its type, and the numbers of
\* the line n lines below it, first token discarded
KernelAt == LineOf(ret.arg, "[kernel.")
KernelType == ret.arg[KernelAt + 1].toks[Len(ret.arg[KernelAt + 1].toks)]
Lengthscale(n) ==
  [j \in 1..(Len(ret.arg[KernelAt + n].toks) - 1) |->
     IntOf(ret.arg[KernelAt + n].toks[j + 1])]
ReadKernelFile == ret.op = "_read_file" /\ ret.arg \in KernelFiles /\ ~IsErr(ret.val)

\* C14, as stated: for a [kernel.<name>] section of type rbf the parser
\* skips exactly one header line after the type line and reads the
\* lengthscale vector from the following line, first token discarded.
C14_RbfSkipsOne ==
  (ReadKernelFile /\ KernelType = <<"rbf">>)
     => self.k[1].tag = "rbf" /\ self.k[1].theta = Lengthscale(3)

\* C14, amended: the parser skips exactly two lines after the type line and
\* reads the lengthscale vector from the third, first token discarded, the
\* remaining tokens in order.
C14_RbfSkipsTwo ==
  (ReadKernelFile /\ KernelType = <<"rbf">>)
     => self.k[1].tag = "rbf" /\ self.k[1].theta = Lengthscale(4)

\* C14 witness: a section as FEREBUS writes it, with the lengthscales 2, 3
C14_Witness ==
  /\ ReadKernelFile /\ KernelType = <<"rbf">> /\ ret.arg \in TwoHeaderFiles
  /\ self.nfeats = 2 /\ self.k[1].theta = <<2, 3>>

\* the file read holds a [kernel.<name>] line and a type line below it
HasKernel ==
  /\ ret.op = "_read_file"
  /\ \E i \in 1..(Len(ret.arg) - 1) :
       In("[kernel.", ret.arg[i]) /\ ~startswith(ret.arg[i], "#")
  /\ KernelAt < Len(ret.arg)
  /\ Len(ret.arg[KernelAt + 1].toks) > 0

CyclicSpellings == {<<"rbf-cyclic">>, <<"rbf-cylic">>}

\* the file read, its kernel type spelt the other way
Respelled ==
  [ret.arg EXCEPT ![KernelAt + 1].toks[Len(ret.arg[KernelAt + 1].toks)] =
     IF KernelType = <<"rbf-cyclic">> THEN <<"rbf-cylic">> ELSE <<"rbf-cyclic">>]

\* C15: rbf-cyclic and rbf-cylic are equivalent: each registers a cyclic
\* kernel under the section's name, its lengthscales read from the line
\* that follows two skipped lines, first token discarded; two files that
\* differ only in the spelling parse to the same model.
C15_CyclicSpellings ==
  (HasKernel /\ KernelType \in CyclicSpellings)
     => /\ SameRead(Respelled)
        /\ ~IsErr(ret.val) => /\ self.k[1].tag = "cyclic"
                              /\ self.k[1].theta = Lengthscale(4)

\* C15 witness: a section spelt rbf-cylic with the lengthscales 2, 3
C15_Witness ==
  /\ ReadKernelFile /\ KernelType = <<"rbf-cylic">> /\ ret.arg \in TwoHeaderFiles
  /\ self.k[1].tag = "cyclic" /\ self.k[1].theta = <<2, 3>>

\* the value token of the metadata line of the file read that begins with kw
MetaValue(kw) ==
  ret.arg[CHOOSE i \in 1..Len(ret.arg) : startswith(ret.arg[i], kw)].toks[2]

\* C16: each metadata line sets exactly the field it names from its value
\* token and leaves every other field unchanged, whatever the value token
\* is: name the system, atom the atom, property the property label, nugget
\* the nugget, number_of_features nfeats, number_of_training_points ntrain.
C16_MetadataFields ==
  (ret.op = "_read_file" /\ ret.arg \in MetaFiles /\ ~IsErr(ret.val))
     => /\ self.system = MetaValue("name")
        /\ self.atom = MetaValue("atom")
        /\ self.type = MetaValue("property")
        /\ self.nugget = FloatOf(MetaValue("nugget"))
        /\ self.nfeats = IntOf(MetaValue("number_of_features"))
        /\ self.ntrain = IntOf(MetaValue("number_of_training_points"))

\* the [mean] line of the file read, and the file with the two lines below
\* it as FEREBUS writes them
MeanAt == LineOf(ret.arg, "[mean]")
PlainMean ==
  WithMean(ret.arg, Words(<<"type", "constant">>), Line(<<<<"value">>, Num(1)>>))

\* C17: on a [mean] line the parser skips exactly one line and builds a
\* constant mean whose value is the second token of the next line; the two
\* lines consumed are not interpreted as metadata or section lines.
C17_MeanSection ==
  (ret.op = "_read_file" /\ ret.arg \in MeanFiles)
     => /\ ~IsErr(ret.val)
        /\ self.mean = ConstantMean(FloatOf(ret.arg[MeanAt + 2].toks[2]))
        /\ [self EXCEPT !.mean = ConstantMean(One)] = Model_read_file(PlainMean, "object").m

\* C17 witness: the line skipped reads `name OTHER`, the value line `nugget 2`
C17_Witness ==
  /\ ret.op = "_read_file" /\ ret.arg \in MeanFiles /\ ~IsErr(ret.val)
  /\ ret.arg[MeanAt + 1] = Words(<<"name", "OTHER">>)
  /\ ret.arg[MeanAt + 2] = Line(<<<<"nugget">>, Num(2)>>)
  /\ self.mean.value = <<2, 1>> /\ self.system = <<"WATER">> /\ self.nugget = <<1, 2>>

\* the terms of the composition expression of the file read, and the
\* names of its kernel sections
ExprOf == ret.arg[LineOf(ret.arg, "composition")].toks[2]
ExprTermsOf ==
  [a \in 1..((Len(ExprOf) + 1) \div 7) |->
     [name |-> ExprOf[7 * (a - 1) + 1],
      lo |-> IntOf(<<ExprOf[7 * (a - 1) + 3]>>),
      hi |-> IntOf(<<ExprOf[7 * (a - 1) + 5]>>)]]
KernelNamesOf ==
  {ret.arg[i].toks[1][2] : i \in {j \in 1..Len(ret.arg) : In("[kernel.", ret.arg[j])}}

Overlapping(ts) ==
  \E a \in 1..Len(ts), b \in 1..Len(ts) :
    a # b /\ ts[a].lo <= ts[b].hi /\ ts[b].lo <= ts[a].hi
Covered(ts) == UNION {ts[a].lo..ts[a].hi : a \in 1..Len(ts)}
UnknownName(ts) == \E a \in 1..Len(ts) : ts[a].name \notin KernelNamesOf

\* C18: for every valid composition expression the parsed feature ranges
\* are pairwise disjoint and their union is exactly the nfeats features; an
\* expression with an overlapping range, a gap, or a kernel name absent
\* from the kernel mapping raises ParseError.
C18_CompositionValid ==
  (ret.op = "_read_file" /\ ret.arg \in CompositionFiles)
     => /\ ~IsErr(ret.val) =>
             /\ ~Overlapping(self.k)
             /\ Covered(self.k) = 1..self.nfeats
        /\ (\/ Overlapping(ExprTermsOf) \/ UnknownName(ExprTermsOf)
            \/ Covered(ExprTermsOf) # 1..self.nfeats)
             => ret.val.err = "ParseError"


\* the last call is a get_points of the pool and the request
Selected == ret.op = "get_points"

\* C19: get_points returns exactly min(n, len(pool)) indices, pairwise
\* distinct and within 0..len(pool)-1; a request for more than the pool
\* holds returns every index of the pool exactly once.
C19_RandomSample ==
  (Selected /\ self.npoints >= 0)
     => /\ ~IsErr(ret.val)
        /\ Len(ret.val.list) = Min(self.npoints, Len(ret.arg))
        /\ \A a \in 1..Len(ret.val.list) :
             /\ ret.val.list[a] \in 0..(Len(ret.arg) - 1)
             /\ \A b \in 1..Len(ret.val.list) :
                  a # b => ret.val.list[a] # ret.val.list[b]
        /\ self.npoints > Len(ret.arg) =>
             \A i \in 0..(Len(ret.arg) - 1) :
               Cardinality({a \in 1..Len(ret.val.list) : ret.val.list[a] = i}) = 1

\* C19: more points than the pool holds were requested of a pool of
\* several points, and the call has returned
C19_Witness ==
  /\ Selected
  /\ Len(ret.arg) >= 2
  /\ self.npoints > Len(ret.arg)
  /\ ~IsErr(ret.val)

\* C20: a request with n <= 0 or with an empty pool fails with
\* SelectionError and never returns an empty index list.
C20_SelectionError ==
  (Selected /\ (self.npoints <= 0 \/ Len(ret.arg) = 0))
     => ret.val.err = "SelectionError"


SinglePoint ==
  /\ WellFormed(self)
  /\ NTrainRows = 1
  /\ self.nugget = Zero
  /\ self.mean.tag \in {"zero", "constant"}
  /\ Len(self.k) = 1

\* row i of the argument of the last call is the training point
AtTrainingPoint(i) == Row(check_x_2d(ret.arg), i).d = self.x.d

\* C22: interpolation: for a model with a single training point (x0, y0) and
\* nugget 0, predict(x0) returns y0 and variance(x0) returns 0, for any
\* constant mean value and any kernel whose self-covariance is 1.
C22_Interpolation ==
  (SinglePoint /\ ret.op \in {"predict", "variance"} /\ ArgCols = self.nfeats)
     => /\ ~IsErr(ret.val)
        /\ Len(ret.val.d) = ArgRows
        /\ \A i \in 1..ArgRows :
             AtTrainingPoint(i) =>
               ret.val.d[i] = (IF ret.op = "predict" THEN self.y.d[1] ELSE Zero)

\* C22 witness: predict returned at the training point, under a constant
\* mean, in a batch whose other row is another point
C22_Witness ==
  /\ SinglePoint /\ self.mean.tag = "constant"
  /\ ret.op = "predict" /\ ArgCols = self.nfeats /\ ArgRows = 2
  /\ AtTrainingPoint(2) /\ ~AtTrainingPoint(1)
  /\ ~IsErr(ret.val)


\* the model whose training rows and labels are reordered by p, and the
\* instance that has computed nothing yet
RowOrders(n) ==
  {p \in [1..n -> 1..n] : \A a \in 1..n, b \in 1..n : a # b => p[a] # p[b]}
Permuted(m, p) ==
  [m EXCEPT !.x = Mat(m.x.sh[1], m.x.sh[2], LAMBDA i, j : At2(m.x, p[i], j)),
            !.y = Vec(m.y.sh[1], LAMBDA i : m.y.d[p[i]])]
CallOn(m, op, xin) ==
  IF op = "predict" THEN Model_predict(m, Fresh, xin).val
  ELSE Model_variance(m, Fresh, xin).val

\* C23: permutation invariance: applying the same permutation to the rows
\* of X and the entries of y leaves predict and variance at every fixed test
\* point unchanged.
C23_PermutationInvariant ==
  (ret.op \in {"predict", "variance"} /\ WellFormed(self))
     => \A p \in RowOrders(NTrainRows) :
          Same(ret.val, CallOn(Permuted(self, p), ret.op, ret.arg))


\* C25: get_current_python_environment_path raises PythonEnvironmentNotFound
\* when neither VIRTUAL_ENV nor CONDA_PREFIX is set, and otherwise returns a
\* PythonEnvironmentPath whose uses_venv / uses_conda flags are true exactly
\* for the environments that are active.
C25_EnvironmentFlags ==
  ret.op = "get_current_python_environment_path"
     => IF \A name \in EnvNames : name \notin DOMAIN ret.arg
        THEN ret.val.err = "PythonEnvironmentNotFound"
        ELSE /\ ~IsErr(ret.val)
             /\ uses_venv(ret.val) <=> "VIRTUAL_ENV" \in DOMAIN ret.arg
             /\ uses_conda(ret.val) <=> "CONDA_PREFIX" \in DOMAIN ret.arg


\* the steps of one iteration in the order of func_order, and those of an
\* iteration in state `state`; the step functions called in the i-th
\* next_iter, the make_sets job of the first one aside
AllSteps ==
  <<"ichor_qcp", "qcp", "ichor_qct", "qct", "make_models", "ferebus", "active_learning">>
StepsIn(state) ==
  IF state = "Last" THEN SubSeq(AllSteps, 1, Len(AllSteps) - 1) ELSE AllSteps
StepsCalled(i) ==
  IF self.calls[i] # <<>> /\ Head(self.calls[i]) = "make_sets"
  THEN Tail(self.calls[i]) ELSE self.calls[i]
StateOf(i) ==
  IF i = self.N_ITERATIONS + 1 THEN "Last" ELSE IF i = 1 THEN "First" ELSE "Standard"
AutoRunReturned == ret.op = "auto_run" /\ ~IsErr(ret.val)

\* C26: in auto_run with N_ITERATIONS = N >= 1 on a machine that is not
\* drop-compute, next_iter is called N+1 times with states First, then
\* Standard N-1 times, then Last; the active-learning step is submitted in
\* every iteration except the final Last one, and every other step of
\* func_order is submitted in every iteration.
C26_IterationStates ==
  ("DropCompute" \in DOMAIN self /\ ~self.DropCompute /\ self.N_ITERATIONS >= 1)
     => /\ \A i \in 1..Len(self.states) : self.states[i] = StateOf(i)
        /\ \A i \in 1..Len(self.returned) : StepsCalled(i) = StepsIn(StateOf(i))
        /\ AutoRunReturned =>
             /\ Len(self.states) = self.N_ITERATIONS + 1
             /\ Len(self.returned) = self.N_ITERATIONS + 1

\* C26 witness: auto_run has returned after two iterations and the last one
C26_Witness ==
  /\ ~self.DropCompute /\ self.N_ITERATIONS = 2
  /\ AutoRunReturned
  /\ Len(self.returned) = 3

\* the place of a step function in func_order, make_sets before them all
Place(func) ==
  IF func = "make_sets" THEN 0 ELSE CHOOSE q \in 1..Len(AllSteps) : AllSteps[q] = func

\* C27: steps are submitted in func_order order within an iteration and
\* iterations in order; every job submitted after the first one is
\* submitted with hold equal to the job id of the most recently submitted
\* job, never with hold None; next_iter returns the id of the last job
\* submitted.
C27_JobChain ==
  /\ \A i \in 1..Len(self.calls) :
       \A a \in 1..Len(self.calls[i]), b \in 1..Len(self.calls[i]) :
         a < b => Place(self.calls[i][a]) < Place(self.calls[i][b])
  /\ \A c \in 1..Len(self.last) :
       (self.last[c].id # None /\ self.last[c].id.id > 1)
          => self.last[c].hold = JobID(self.last[c].id.id - 1)
  /\ \A i \in 1..Len(self.returned) :
       self.returned[i].njobs > 0 => self.returned[i].val = JobID(self.returned[i].njobs)

\* auto_run was called while the counter file existed
FoundCounter == ret.op = "auto_run" /\ ret.arg # Unset /\ ret.arg.counter # NoFile

\* C29: auto_run called while the counter file exists raises
\* AutoRunAlreadyRunning without submitting any job and without changing
\* the counter file; called while it does not exist, it writes the counter
\* file with content 0 before the first job is submitted.
C29_CounterFile ==
  [][(self.pc = "idle" /\ self'.pc \in {"idle", "next_iter"})
       => IF environ.counter # NoFile
          THEN /\ ret'.val.err = "AutoRunAlreadyRunning"
               /\ environ' = environ
               /\ self' = self
          ELSE /\ environ'.counter = "0"
               /\ environ'.njobs = environ.njobs]_vars

\* C29 witness: auto_run has run to its end, and called again it has raised
C29_Witness ==
  /\ FoundCounter
  /\ ret.val.err = "AutoRunAlreadyRunning"
  /\ environ.njobs > 0
  /\ environ.counter = "0"


\* a call on the Globals instance was made in this step: name and text are
\* those of the call that ret' records
CallStep(op) == ret'.op = op /\ environ'.files = environ.files
NameSet == upper(ret'.arg[1])
TextSet == ret'.arg[2]
Refused(name, text) ==
  \/ IsErr(Parsed(name, text))
  \/ IsErr(Checked(name, Formatted(name, Parsed(name, text).v)))

\* C28: global variables are always valid: after any sequence of
\* Globals.set calls and attribute assignments on a constructed instance,
\* every variable that has checkers holds a value that passes them, and a
\* set call whose value fails parsing or checking leaves the variable's
\* previous value unchanged.
C28_AlwaysValid ==
  /\ [](\A name \in HasCheckers : ~IsErr(Checked(name, self[name])))
  /\ [][(CallStep("set") /\ NameSet \in HasCheckers /\ Refused(NameSet, TextSet))
          => self'[NameSet] = self[NameSet]]_vars

\* the path of the text, resolved, and the stored paths a setter leaves alone
PathSet == resolve(Path(Str(TextSet)))
StoredPaths == {"POINTS_LOCATION_", "ATOMS_REFERENCE_FILE_", "ALF_REFERENCE_FILE_"}
OwnPath(name) ==
  IF name = "POINTS_LOCATION" THEN "POINTS_LOCATION_"
  ELSE IF name = "ATOMS_REFERENCE_FILE" THEN "ATOMS_REFERENCE_FILE_"
  ELSE "ALF_REFERENCE_FILE_"

\* C30: setting ATOMS_REFERENCE_FILE to an existing path p and then reading
\* ATOMS_REFERENCE_FILE returns p resolved, and the assignment leaves
\* ALF_REFERENCE_FILE's stored value unchanged; likewise for POINTS_LOCATION
\* and ALF_REFERENCE_FILE each setter changes only its own stored path.
C30_PathSetters ==
  [][(CallStep("__setattr__") /\ NameSet \in properties_with_setter_methods
        /\ exists(environ, PathSet))
       => /\ \A done \in Globals_getattr(self', environ', NameSet) : done.val = PathSet
          /\ self'[OwnPath(NameSet)] = PathSet
          /\ \A other \in StoredPaths \ {OwnPath(NameSet)} : self'[other] = self[other]]_vars


\* the score of candidate i of the pool (from 0): the sum over the models
\* of the variance each gives the candidate on its own
ScoreOf(i) ==
  SumTo(LAMBDA k : CallOn(self.models[k], "variance", Row(self.pool, i + 1)).d[1],
        Len(self.models))
RECURSIVE ScoresOf(_)
ScoresOf(n) == IF n = 0 THEN <<>> ELSE Append(ScoresOf(n - 1), ScoreOf(n - 1))
EpeReturned == ret.op = "epe" /\ ret.arg >= 1
PoolIndices == 0..(self.pool.sh[1] - 1)
Picked == {ret.val.list[a] : a \in 1..Len(ret.val.list)}

\* C21: the uncertainty (epe) selector scores each candidate by the sum over
\* all models of its predictive variance and returns the n candidates with
\* the largest scores, in non-increasing score order, with equal scores
\* ordered by ascending pool index; the result has exactly min(n, len(pool))
\* distinct in-range indices.
C21_UncertaintySelection ==
  EpeReturned
     => /\ ~IsErr(ret.val)
        /\ Len(ret.val.list) = Min(ret.arg, self.pool.sh[1])
        /\ Picked \subseteq PoolIndices
        /\ Cardinality(Picked) = Len(ret.val.list)
        /\ \A score \in {ScoresOf(self.pool.sh[1])} :
             /\ \A a \in 1..(Len(ret.val.list) - 1) :
                  LET i == ret.val.list[a]
                      j == ret.val.list[a + 1]
                  IN  /\ ~RLess(score[i + 1], score[j + 1])
                      /\ score[i + 1] = score[j + 1] => i < j
             /\ \A i \in Picked : \A j \in PoolIndices \ Picked :
                  /\ ~RLess(score[i + 1], score[j + 1])
                  /\ score[i + 1] = score[j + 1] => i < j

\* C21: two models, fewer points requested than the pool holds, and among
\* the candidates two of equal score and two of different scores
C21_Witness ==
  /\ EpeReturned
  /\ ~IsErr(ret.val)
  /\ Len(self.models) = 2
  /\ ret.arg < self.pool.sh[1]
  /\ \E score \in {ScoresOf(self.pool.sh[1])} :
       /\ \E i \in Picked : \E j \in PoolIndices \ Picked : score[i + 1] = score[j + 1]
       /\ \E i \in PoolIndices : \E j \in PoolIndices : RLess(score[i + 1], score[j + 1])

====
